---- MODULE Spec2Model ----
(***************************************************************************)
(* Verification model of the editia-core monetization engine:              *)
(*   - the static tables and pure helpers (types/monetization.ts,          *)
(*     types/database.ts),                                                 *)
(*   - MonetizationService (cache, checkFeatureAccess, validateUsage,      *)
(*     checkMonetization, incrementUsage),                                 *)
(*   - the Express middleware pipeline (createMonetizationMiddleware,      *)
(*     createUsageIncrementMiddleware),                                    *)
(*   - UserUsageService (getUserUsage, incrementUsage).                    *)
(* Every await on the backing store is a separate step, so that calls of   *)
(* concurrent requests interleave exactly at the suspension points.        *)
(***************************************************************************)
EXTENDS Integers, Sequences, FiniteSets, TLC

\* ------------------------------------------------------------------------
\* Bounds of the model
\* ------------------------------------------------------------------------

\* largest value of the used counters in the initial usage record
MaxInitUsed == 2

\* number of times the clock may advance by one cache timeout
MaxTicks == 1

\* ------------------------------------------------------------------------
\* JavaScript values
\* ------------------------------------------------------------------------

Null == "null"

Undefined == "undefined"

\* !x for the values a required plan can take
Falsy(x) == x \in {Null, Undefined}

\* ------------------------------------------------------------------------
\* Static tables (types/monetization.ts, types/database.ts)
\* ------------------------------------------------------------------------

PlanIdentifier == {"free", "creator", "pro"}

FEATURES == {"video_generation", "source_videos", "voice_clone",
             "account_analysis", "account_insights", "account_chat",
             "script_conversations", "script_generation", "chat_ai"}

ACTION_VALUES == {"video_generation", "source_video_upload", "voice_clone",
            "account_analysis", "account_insights", "account_chat",
            "script_conversations"}

USAGE_FIELDS == {"videos_generated", "source_videos_used", "voice_clones_used",
                 "account_analysis_used", "account_insights_used",
                 "script_conversations_used", "account_chat_used"}

FEATURE_TO_ACTION_MAP ==
  [f \in FEATURES |->
     CASE f = "video_generation"     -> "video_generation"
       [] f = "source_videos"        -> "source_video_upload"
       [] f = "voice_clone"          -> "voice_clone"
       [] f = "account_analysis"     -> "account_analysis"
       [] f = "account_insights"     -> "account_insights"
       [] f = "script_conversations" -> "script_conversations"
       [] f = "script_generation"    -> "script_conversations"
       [] f = "chat_ai"              -> "script_conversations"
       [] f = "account_chat"         -> "account_chat"]

ACTION_TO_USAGE_FIELD_MAP ==
  [a \in ACTION_VALUES |->
     CASE a = "video_generation"     -> "videos_generated"
       [] a = "source_video_upload"  -> "source_videos_used"
       [] a = "voice_clone"          -> "voice_clones_used"
       [] a = "account_analysis"     -> "account_analysis_used"
       [] a = "account_insights"     -> "account_insights_used"
       [] a = "script_conversations" -> "script_conversations_used"
       [] a = "account_chat"         -> "account_chat_used"]

FEATURE_TO_USAGE_FIELD_MAP ==
  [f \in FEATURES |->
     CASE f = "video_generation"     -> "videos_generated"
       [] f = "source_videos"        -> "source_videos_used"
       [] f = "voice_clone"          -> "voice_clones_used"
       [] f = "account_analysis"     -> "account_analysis_used"
       [] f = "account_insights"     -> "account_insights_used"
       [] f = "account_chat"         -> "account_chat_used"
       [] f = "script_conversations" -> "script_conversations_used"
       [] f = "script_generation"    -> "script_conversations_used"
       [] f = "chat_ai"              -> "script_conversations_used"]

\* a lookup in a JavaScript object: undefined for a key it does not have
getActionForFeature(featureId) ==
  IF featureId \in DOMAIN FEATURE_TO_ACTION_MAP
    THEN FEATURE_TO_ACTION_MAP[featureId] ELSE Undefined

getUsageFieldForAction(action) ==
  IF action \in DOMAIN ACTION_TO_USAGE_FIELD_MAP
    THEN ACTION_TO_USAGE_FIELD_MAP[action] ELSE Undefined

\* a direct table that meters account insights by the account analysis field
getUsageFieldForFeatureInsightsAsAnalysis(featureId) ==
  IF featureId = "account_insights" THEN "account_analysis_used"
  ELSE IF featureId \in DOMAIN FEATURE_TO_USAGE_FIELD_MAP
    THEN FEATURE_TO_USAGE_FIELD_MAP[featureId] ELSE Undefined

getUsageFieldForFeature(featureId) ==
  IF featureId \in DOMAIN FEATURE_TO_USAGE_FIELD_MAP
    THEN FEATURE_TO_USAGE_FIELD_MAP[featureId] ELSE Undefined

isValidFeatureId(value) == value \in FEATURES

isValidAction(value) == value \in ACTION_VALUES

getPlanLevel(plan) ==
  CASE plan = "free"    -> 0
    [] plan = "creator" -> 1
    [] plan = "pro"     -> 2

\* an access rule that asks for a plan above the required one
hasPlanAccessStrictlyAbove(userPlan, requiredPlan) ==
  getPlanLevel(userPlan) > getPlanLevel(requiredPlan)

hasPlanAccess(userPlan, requiredPlan) ==
  getPlanLevel(userPlan) >= getPlanLevel(requiredPlan)

Max(a, b) == IF a >= b THEN a ELSE b

calculateRemainingUsage(used, limit) == Max(0, limit - used)

hasReachedLimit(used, limit) == used >= limit


\* ------------------------------------------------------------------------
\* Backing store: the user_usage and feature_flags tables
\* ------------------------------------------------------------------------

Users == {"u1"}

\* the counter columns of user_usage and, for each, its limit column
UsedColumns == {"videos_generated", "source_videos_used", "voice_clones_used",
                "account_analysis_used", "script_conversations_used"}

LimitColumn(col) ==
  CASE col = "videos_generated"          -> "videos_generated_limit"
    [] col = "source_videos_used"        -> "source_videos_limit"
    [] col = "voice_clones_used"         -> "voice_clones_limit"
    [] col = "account_analysis_used"     -> "account_analysis_limit"
    [] col = "script_conversations_used" -> "script_conversations_limit"

\* rows of subscription_plans: the limits of DEFAULT_PLAN_LIMITS scaled down,
\* keeping 0, the order of the finite limits and the -1 sentinel
PlanLimits(plan) ==
  CASE plan = "free" ->
         [videos_generated_limit |-> 1, source_videos_limit |-> 2,
          voice_clones_limit |-> 0, account_analysis_limit |-> 1,
          script_conversations_limit |-> 2]
    [] plan = "creator" ->
         [videos_generated_limit |-> 2, source_videos_limit |-> 3,
          voice_clones_limit |-> 1, account_analysis_limit |-> 2,
          script_conversations_limit |-> 3]
    [] plan = "pro" ->
         [videos_generated_limit |-> -1, source_videos_limit |-> -1,
          voice_clones_limit |-> 2, account_analysis_limit |-> -1,
          script_conversations_limit |-> -1]

\* a row of user_usage: plan id, counters all equal to k, limits of a plan
UsageRow(plan, limitsOf, k) ==
  [current_plan_id |-> plan,
   videos_generated |-> k,
   videos_generated_limit |-> PlanLimits(limitsOf).videos_generated_limit,
   source_videos_used |-> k,
   source_videos_limit |-> PlanLimits(limitsOf).source_videos_limit,
   voice_clones_used |-> k,
   voice_clones_limit |-> PlanLimits(limitsOf).voice_clones_limit,
   account_analysis_used |-> k,
   account_analysis_limit |-> PlanLimits(limitsOf).account_analysis_limit,
   script_conversations_used |-> k,
   script_conversations_limit |-> PlanLimits(limitsOf).script_conversations_limit]

\* an optional value: << >> is absent (null), <<v>> is present
None == << >>

Some(v) == <<v>>

\* the reply of a supabase query: {data, error}; error is "none" (null),
\* "PGRST116" (single() found no row) or "other" (the store is unreachable)
Reply(err, data) == [error |-> err, data |-> data]

NoReply == Reply("none", None)

\* if (error): any error object is truthy
IsError(reply) == reply.error # "none"

\* .from('user_usage').select('*').eq('user_id', userId).single()
SelectUserUsage(table, userId, fails) ==
  IF fails THEN Reply("other", None)
  ELSE IF table[userId] = None THEN Reply("PGRST116", None)
  ELSE Reply("none", table[userId])

\* .from('feature_flags').select('*').eq('id', f).eq('is_active', true).single()
SelectFeatureFlag(table, featureId, fails) ==
  IF fails THEN Reply("other", None)
  ELSE IF table[featureId] = None \/ ~table[featureId][1].is_active
    THEN Reply("PGRST116", None)
  ELSE Reply("none", table[featureId])

\* the tables a query touched, and "fail:<table>" when the store was unreachable
StoreCall(tableName, fails) ==
  IF fails THEN {"store:" \o tableName, "fail:" \o tableName}
  ELSE {"store:" \o tableName}

\* the stored procedure increment_user_usage(p_user_id, p_field_to_increment):
\* one atomic update of the row, an error for a missing row or column
RpcIncrementOk(table, userId, field, fails) ==
  ~fails /\ table[userId] # None /\ field \in UsedColumns

increment_user_usage(table, userId, field) ==
  [table EXCEPT ![userId] = Some([table[userId][1] EXCEPT ![field] = @ + 1])]

\* the stored procedure decrement_user_usage(p_user_id, p_field_to_decrement):
\* one atomic update of the row that keeps the counter at or above 0
decrement_user_usage(table, userId, field) ==
  [table EXCEPT ![userId] =
     Some([table[userId][1] EXCEPT ![field] = IF @ > 0 THEN @ - 1 ELSE 0])]

\* ------------------------------------------------------------------------
\* MonetizationService: cache and pure parts
\* ------------------------------------------------------------------------

\* private cacheTimeout = 5 * 60 * 1000
cacheTimeout == 5 * 60 * 1000

\* the text of an id, for String.includes: the characters of a user id; any
\* other id is one token, since no user id occurs inside a feature id or a
\* key prefix
Text(s) ==
  CASE s = "u1"  -> <<"u", "1">>
    [] s = "u10" -> <<"u", "1", "0">>
    [] s = "u2"  -> <<"u", "2">>
    [] OTHER     -> <<s>>

UsageKey(userId) == <<"usage_">> \o Text(userId)

FeatureKey(featureId) == <<"feature_">> \o Text(featureId)

CacheKeys == {UsageKey(u) : u \in Users} \cup {FeatureKey(f) : f \in FEATURES}

\* key.includes(userId): the text of userId occurs in the text of key
Includes(key, text) ==
  \E i \in 1..(Len(key) - Len(text) + 1) : SubSeq(key, i, i + Len(text) - 1) = text

\* a lookup that still trusts an entry whose age equals the timeout
CacheHitAtTimeout(c, key, time) ==
  c[key] # None /\ time - c[key][1].timestamp <= cacheTimeout

\* cached && Date.now() - cached.timestamp < this.cacheTimeout
CacheHit(c, key, time) ==
  c[key] # None /\ time - c[key][1].timestamp < cacheTimeout

\* this.cache.set(cacheKey, { data, timestamp: Date.now() })
CacheSet(c, key, data, time) ==
  [c EXCEPT ![key] = Some([data |-> data, timestamp |-> time])]

\* an incrementUsage that leaves the cache as it is
clearUserCacheKeepsEntries(c, userId) == c

clearUserCache(c, userId) ==
  [k \in DOMAIN c |-> IF Includes(k, Text(userId)) THEN None ELSE c[k]]

\* getUserUsage / getFeatureRequirements after the await: null for any error
\* of the query, else the row
UsageFromReply(reply) == IF IsError(reply) THEN None ELSE reply.data

FeatureFromReply(reply) == IF IsError(reply) THEN None ELSE reply.data

\* getUsageInfoForField: {used, total} of a usage field, {0, 0} for a field
\* that has no entry in fieldMap
getUsageInfoForField(usageField, userUsage) ==
  IF usageField \in UsedColumns
    THEN [used |-> userUsage[usageField], total |-> userUsage[LimitColumn(usageField)]]
    ELSE [used |-> 0, total |-> 0]

getUsageInfoForFeature(featureId, userUsage) ==
  getUsageInfoForField(getUsageFieldForFeature(featureId), userUsage)

getUsageInfoForAction(action, userUsage) ==
  getUsageInfoForField(getUsageFieldForAction(action), userUsage)

\* FeatureAccessResult
AccessResult(hasAccess, requiredPlan, remainingUsage, totalLimit, currentPlan, error) ==
  [hasAccess |-> hasAccess, requiredPlan |-> requiredPlan,
   remainingUsage |-> remainingUsage, totalLimit |-> totalLimit,
   currentPlan |-> currentPlan, error |-> error]

\* checkFeatureAccess when getUserUsage returned null
AccessUsageNotFound ==
  AccessResult(FALSE, Null, 0, 0, "free", "User usage not found")

\* checkFeatureAccess once the usage record and the feature flag are known;
\* featureRequirements is None (null) or Some(row)
AccessDecision(featureId, userUsage, featureRequirements) ==
  LET requiredPlan == IF featureRequirements = None THEN Undefined
                      ELSE featureRequirements[1].required_plan
      hasAccess == Falsy(requiredPlan)
                     \/ hasPlanAccess(userUsage.current_plan_id, requiredPlan)
      usageInfo == getUsageInfoForFeature(featureId, userUsage)
  IN AccessResult(hasAccess, requiredPlan,
                  calculateRemainingUsage(usageInfo.used, usageInfo.total),
                  usageInfo.total, userUsage.current_plan_id, Undefined)

\* UsageValidationResult
UsageResult(isValid, remainingUsage, totalLimit, error) ==
  [isValid |-> isValid, remainingUsage |-> remainingUsage,
   totalLimit |-> totalLimit, error |-> error]

\* validateUsage once getUserUsage has returned; userUsage is None or Some(row)
UsageDecision(action, userUsage) ==
  IF ~isValidAction(action)
    THEN UsageResult(FALSE, 0, 0, "Invalid action")
  ELSE IF userUsage = None
    THEN UsageResult(FALSE, 0, 0, "User usage not found")
  ELSE LET usageInfo == getUsageInfoForAction(action, userUsage[1])
           isValid == ~hasReachedLimit(usageInfo.used, usageInfo.total)
       IN UsageResult(isValid,
                      calculateRemainingUsage(usageInfo.used, usageInfo.total),
                      usageInfo.total,
                      IF isValid THEN Undefined ELSE "Usage limit reached")

\* MonetizationCheckResult; details is None (absent) or Some(record)
CheckResult(success, hasAccess, currentPlan, remainingUsage, totalLimit, error, details) ==
  [success |-> success, hasAccess |-> hasAccess, currentPlan |-> currentPlan,
   remainingUsage |-> remainingUsage, totalLimit |-> totalLimit,
   error |-> error, details |-> details]

Details(featureId, requiredPlan) ==
  Some([featureId |-> featureId, requiredPlan |-> requiredPlan,
        usageType |-> getUsageFieldForFeature(featureId)])

\* the denial reporting the quota numbers of checkFeatureAccess
AccessDeniedWithQuota(featureId, accessResult) ==
  CheckResult(FALSE, FALSE, accessResult.currentPlan,
              accessResult.remainingUsage, accessResult.totalLimit,
              "Feature requires plan", Details(featureId, accessResult.requiredPlan))

\* checkMonetization: the result for a denied feature access
AccessDenied(featureId, accessResult) ==
  CheckResult(FALSE, FALSE, accessResult.currentPlan, 0, 0,
              "Feature requires plan", Details(featureId, accessResult.requiredPlan))

\* checkMonetization: the result once validateUsage has returned
UsageChecked(featureId, accessResult, usageResult) ==
  IF ~usageResult.isValid
    THEN CheckResult(FALSE, TRUE, accessResult.currentPlan,
                     usageResult.remainingUsage, usageResult.totalLimit,
                     "Usage limit reached",
                     Details(featureId, accessResult.requiredPlan))
    ELSE CheckResult(TRUE, TRUE, accessResult.currentPlan,
                     usageResult.remainingUsage, usageResult.totalLimit,
                     Undefined, Details(featureId, accessResult.requiredPlan))


\* ------------------------------------------------------------------------
\* Express middleware: configurations, responses, the intercepted res.send
\* ------------------------------------------------------------------------

Reqs == {"r1", "r2"}

\* MonetizationMiddlewareConfig; errorHandler is "none" when not configured
Config(featureId, incrementUsage, action, errorHandler) ==
  [featureId |-> featureId, incrementUsage |-> incrementUsage,
   action |-> action, errorHandler |-> errorHandler]

videoGenerationMiddleware == Config("video_generation", TRUE, "video_generation", "none")

sourceVideoUploadMiddleware == Config("source_videos", TRUE, "source_video_upload", "none")

voiceCloneMiddleware == Config("voice_clone", TRUE, "voice_clone", "none")

accountAnalysisMiddleware == Config("account_analysis", TRUE, "account_analysis", "none")

\* a script generation preset that charges the video counter
scriptGenerationChargesVideos == Config("script_generation", TRUE, "video_generation", "none")

scriptGenerationMiddleware == Config("script_generation", TRUE, "script_conversations", "none")

scriptConversationsMiddleware == Config("script_conversations", TRUE, "script_conversations", "none")

chatAiMiddleware == Config("chat_ai", FALSE, Undefined, "none")

PresetConfigs ==
  {videoGenerationMiddleware, sourceVideoUploadMiddleware, voiceCloneMiddleware,
   accountAnalysisMiddleware, scriptGenerationMiddleware,
   scriptConversationsMiddleware, chatAiMiddleware}

\* configurations a caller of createMonetizationMiddleware can write
CustomConfigs ==
  {Config("custom_feature", TRUE, "video_generation", "userFriendly"),
   Config("video_generation", TRUE, "custom_action", "none"),
   Config("video_generation", TRUE, "video_generation", "userFriendly"),
   Config("account_insights", TRUE, "account_insights", "default")}

Configs == PresetConfigs \cup CustomConfigs

\* a response sent to the client; absent members are None
Response(status, code, details, upgrade, limits, body) ==
  [status |-> status, code |-> code, details |-> details, upgrade |-> upgrade,
   limits |-> limits, body |-> body]

ErrorResponse(status, code) == Response(status, code, None, None, None, None)

DenialCode(result) ==
  IF result.hasAccess THEN "USAGE_LIMIT_REACHED" ELSE "FEATURE_ACCESS_DENIED"

\* result.details?.requiredPlan
DetailsRequiredPlan(result) ==
  IF result.details = None THEN Undefined ELSE result.details[1].requiredPlan

Upgrade(result) ==
  IF ~result.hasAccess
    THEN Some([requiredPlan |-> DetailsRequiredPlan(result),
               currentPlan |-> result.currentPlan])
    ELSE None

DenialDetails(result) ==
  Some([requiredPlan |-> DetailsRequiredPlan(result),
        currentPlan |-> result.currentPlan,
        remainingUsage |-> result.remainingUsage,
        totalLimit |-> result.totalLimit])

\* the 403 response of createMonetizationMiddleware without an errorHandler
InlineDenial(result) ==
  Response(403, DenialCode(result), DenialDetails(result), Upgrade(result), None, None)

defaultMonetizationErrorHandler(result) ==
  Response(403, DenialCode(result), DenialDetails(result), Upgrade(result), None, None)

userFriendlyMonetizationErrorHandler(result) ==
  Response(403, DenialCode(result), None, Upgrade(result),
           Some([remaining |-> result.remainingUsage, total |-> result.totalLimit]),
           None)

DenialResponse(cfg, result) ==
  CASE cfg.errorHandler = "none"         -> InlineDenial(result)
    [] cfg.errorHandler = "default"      -> defaultMonetizationErrorHandler(result)
    [] cfg.errorHandler = "userFriendly" -> userFriendlyMonetizationErrorHandler(result)

\* A body handed to res.send / res.json.  type is "object", "string" or
\* "undefined"; success is the success member of the object ("true", "false",
\* "absent"); json tells what JSON.parse makes of a string: "object" or "invalid".
Body(type, success, json) == [type |-> type, success |-> success, json |-> json]

ObjectBodies == {Body("object", s, "object") : s \in {"true", "false", "absent"}}

TextBody == Body("string", "absent", "invalid")

UndefinedBody == Body("undefined", "absent", "invalid")

JSONstringify(obj) == Body("string", obj.success, "object")

\* JSON.parse of a string body; ParseThrows tells whether it throws
ParseThrows(str) == str.json = "invalid"

JSONparse(str) == Body("object", str.success, "object")

StatusCodes == {200, 400, 500}

\* what a handler can do to answer: res.json(obj), res.send(x), res.end()
HandlerOutcomes ==
  ({"json", "send"} \X ObjectBodies)
    \cup {<<"send", TextBody>>, <<"send", UndefinedBody>>, <<"end", UndefinedBody>>}

\* the bodies res.send is called with, in order: express's res.json(obj) calls
\* this.send(JSON.stringify(obj)), and its res.send(obj) calls this.json(obj)
SendCalls(method, body) ==
  CASE method = "json" -> <<JSONstringify(body)>>
    [] method = "send" /\ body.type = "object" -> <<body, JSONstringify(body)>>
    [] method = "send" /\ body.type # "object" -> <<body>>
    [] method = "end" -> << >>

\* the interceptor with the status test forgotten
SendIncrementsAnyStatus(body, statusCode) ==
  IF body.type = "undefined" THEN FALSE
  ELSE IF body.type = "string" /\ ParseThrows(body) THEN FALSE
  ELSE LET responseBody == IF body.type = "string" THEN JSONparse(body) ELSE body
       IN responseBody.success # "false"

\* the intercepted res.send: does this call start an increment?
\* (a throw of JSON.parse or of responseBody.success is caught and logged)
SendIncrements(body, statusCode) ==
  IF body.type = "undefined" THEN FALSE
  ELSE IF body.type = "string" /\ ParseThrows(body) THEN FALSE
  ELSE LET responseBody == IF body.type = "string" THEN JSONparse(body) ELSE body
       IN responseBody.success # "false" /\ statusCode < 400

\* number of increments the calls of the intercepted res.send start
RECURSIVE CountIncrements(_, _)
CountIncrements(calls, statusCode) ==
  IF calls = << >> THEN 0
  ELSE (IF SendIncrements(Head(calls), statusCode) THEN 1 ELSE 0)
         + CountIncrements(Tail(calls), statusCode)

\* what the original send finally writes
WireBody(method, body) ==
  IF body.type = "object" THEN JSONstringify(body) ELSE body


\* ------------------------------------------------------------------------
\* State
\* ------------------------------------------------------------------------

VARIABLES
  user_usage,     \* table user_usage: user id -> None or Some(row)
  feature_flags,  \* table feature_flags: feature id -> None or Some(row)
  cache,          \* MonetizationService.cache: key -> None or Some({data, timestamp})
  now,            \* Date.now()
  instance,       \* MonetizationService.instance is set
  routes,         \* the middleware configurations the application mounted
  req,            \* the requests in the middleware pipeline
  svc,            \* direct callers of the services
  hist,           \* the service calls completed by the direct callers
  usage0,         \* user_usage as it was initially
  singletons      \* the static instance field of each service class

vars == <<user_usage, feature_flags, cache, now, instance, routes, req, svc, hist, usage0, singletons>>

\* new Service(config): a fresh object, told apart by id
NewInstance(id, config) == [id |-> id, config |-> config]

\* the static fields once the application has started: UserUsageService is
\* constructed, MonetizationService is when monetization holds
Constructed(monetization) ==
  [cls \in {"MonetizationService", "UserUsageService"} |->
     IF cls = "MonetizationService" /\ ~monetization
       THEN None
       ELSE Some(NewInstance(0, "clientA"))]

\* a request before the pipeline has seen it
NewRequest ==
  [pc |-> "new",
   cfg |-> chatAiMiddleware,          \* config of the route's policy middleware
   userId |-> Undefined,              \* req.user?.id || req.userId
   ret |-> "-",                       \* who awaits getUserUsage: "cfa" or "vu"
   reply |-> NoReply,      \* reply of the store query in flight
   userUsage |-> None,                \* value returned by getUserUsage
   featureRequirements |-> None,      \* value returned by getFeatureRequirements
   accessResult |-> None,             \* value returned by checkFeatureAccess
   result |-> None,                   \* value returned by checkMonetization
   monetization |-> None,             \* req.monetization
   monetizationAction |-> Undefined,  \* req.monetizationAction
   wrapped |-> FALSE,                 \* res.send is the interceptor
   nextCalled |-> 0,                  \* calls of next() by the policy middleware
   handler |-> None,                  \* what the handler did: status, method, body
   response |-> None,                 \* the response written to the client
   calls |-> {},                      \* service methods and tables this request used
   rpcAtStore |-> 0,                  \* increments sent, not yet run by the store
   rpcOk |-> 0,                       \* increments run, reply not yet handled
   rpcErr |-> 0,                      \* increments failed, reply not yet handled
   incStarted |-> 0,                  \* incrementUsage calls started
   incTrue |-> 0,                     \* incrementUsage calls that returned true
   incFalse |-> 0]                    \* incrementUsage calls that returned false

\* a request that is never sent
NoRequest == [NewRequest EXCEPT !.pc = "off"]

Set(r, rec) == req' = [req EXCEPT ![r] = rec]

\* the policy middleware writes a response and returns
Respond(r, cur, resp) ==
  Set(r, [cur EXCEPT !.pc = "done", !.response = Some(resp)])

\* ------------------------------------------------------------------------
\* createMonetizationMiddleware, up to the call of checkMonetization
\* ------------------------------------------------------------------------

\* a policy middleware that evaluates without asking for a user id
PolicyBeginNoAuthentication(r) ==
  /\ req[r].pc = "new"
  /\ \E cfg \in routes, userId \in Users \cup {Undefined} :
       LET cur == [req[r] EXCEPT !.cfg = cfg, !.userId = userId] IN
       IF ~isValidFeatureId(cfg.featureId)
         THEN Respond(r, cur, ErrorResponse(400, "INVALID_FEATURE_ID"))
       ELSE IF cfg.action # Undefined /\ ~isValidAction(cfg.action)
         THEN Respond(r, cur, ErrorResponse(400, "INVALID_ACTION"))
       ELSE IF ~instance
         THEN Respond(r, cur, ErrorResponse(500, "MONETIZATION_SERVICE_ERROR"))
       ELSE Set(r, [cur EXCEPT !.pc = "getUserUsage", !.ret = "cfa",
                               !.calls = @ \cup {"checkMonetization", "checkFeatureAccess"}])
  /\ UNCHANGED <<user_usage, feature_flags, cache, now, instance, routes, svc, hist, usage0, singletons>>

PolicyBegin(r) ==
  /\ req[r].pc = "new"
  /\ \E cfg \in routes, userId \in Users \cup {Undefined} :
       LET cur == [req[r] EXCEPT !.cfg = cfg, !.userId = userId] IN
       IF ~isValidFeatureId(cfg.featureId)
         THEN Respond(r, cur, ErrorResponse(400, "INVALID_FEATURE_ID"))
       ELSE IF cfg.action # Undefined /\ ~isValidAction(cfg.action)
         THEN Respond(r, cur, ErrorResponse(400, "INVALID_ACTION"))
       ELSE IF userId = Undefined
         THEN Respond(r, cur, ErrorResponse(401, "AUTHENTICATION_REQUIRED"))
       ELSE IF ~instance
         \* getInstance throws; the catch block answers
         THEN Respond(r, cur, ErrorResponse(500, "MONETIZATION_SERVICE_ERROR"))
       ELSE Set(r, [cur EXCEPT !.pc = "getUserUsage", !.ret = "cfa",
                               !.calls = @ \cup {"checkMonetization", "checkFeatureAccess"}])
  /\ UNCHANGED <<user_usage, feature_flags, cache, now, instance, routes, svc, hist, usage0, singletons>>

\* ------------------------------------------------------------------------
\* MonetizationService.getUserUsage
\* ------------------------------------------------------------------------

AfterUsage(ret) == IF ret = "cfa" THEN "cfa_usage" ELSE "vu_usage"

\* the cache lookup; on a miss the query is sent
GetUserUsageLookup(r) ==
  /\ req[r].pc = "getUserUsage"
  /\ LET key == UsageKey(req[r].userId)
         cur == [req[r] EXCEPT !.calls = @ \cup {"getUserUsage"}] IN
     IF CacheHit(cache, key, now)
       THEN Set(r, [cur EXCEPT !.pc = AfterUsage(cur.ret),
                               !.userUsage = cache[key][1].data])
       ELSE Set(r, [cur EXCEPT !.pc = "usage_select"])
  /\ UNCHANGED <<user_usage, feature_flags, cache, now, instance, routes, svc, hist, usage0, singletons>>

\* the store answers the query
StoreSelectUsage(r) ==
  /\ req[r].pc = "usage_select"
  /\ \E fails \in BOOLEAN :
       Set(r, [req[r] EXCEPT !.pc = "usage_reply",
                             !.reply = SelectUserUsage(user_usage, req[r].userId, fails),
                             !.calls = @ \cup StoreCall("user_usage", fails)])
  /\ UNCHANGED <<user_usage, feature_flags, cache, now, instance, routes, svc, hist, usage0, singletons>>

\* the continuation after the await: null on error, else cache and return
GetUserUsageReply(r) ==
  /\ req[r].pc = "usage_reply"
  /\ LET key == UsageKey(req[r].userId)
         cur == [req[r] EXCEPT !.pc = AfterUsage(req[r].ret),
                               !.reply = NoReply] IN
     /\ Set(r, [cur EXCEPT !.userUsage = UsageFromReply(req[r].reply)])
     /\ cache' = IF IsError(req[r].reply) THEN cache
                 ELSE CacheSet(cache, key, req[r].reply.data, now)
  /\ UNCHANGED <<user_usage, feature_flags, now, instance, routes, svc, hist, usage0, singletons>>

\* ------------------------------------------------------------------------
\* MonetizationService.checkFeatureAccess and getFeatureRequirements
\* ------------------------------------------------------------------------

\* checkFeatureAccess after getUserUsage
CheckFeatureAccessUsage(r) ==
  /\ req[r].pc = "cfa_usage"
  /\ IF req[r].userUsage = None
       THEN Set(r, [req[r] EXCEPT !.pc = "cm_access",
                                  !.accessResult = Some(AccessUsageNotFound)])
       ELSE Set(r, [req[r] EXCEPT !.pc = "getFeatureRequirements"])
  /\ UNCHANGED <<user_usage, feature_flags, cache, now, instance, routes, svc, hist, usage0, singletons>>

GetFeatureRequirementsLookup(r) ==
  /\ req[r].pc = "getFeatureRequirements"
  /\ LET key == FeatureKey(req[r].cfg.featureId)
         cur == [req[r] EXCEPT !.calls = @ \cup {"getFeatureRequirements"}] IN
     IF CacheHit(cache, key, now)
       THEN Set(r, [cur EXCEPT !.pc = "cfa_feature",
                               !.featureRequirements = cache[key][1].data])
       ELSE Set(r, [cur EXCEPT !.pc = "feature_select"])
  /\ UNCHANGED <<user_usage, feature_flags, cache, now, instance, routes, svc, hist, usage0, singletons>>

StoreSelectFeature(r) ==
  /\ req[r].pc = "feature_select"
  /\ \E fails \in BOOLEAN :
       Set(r, [req[r] EXCEPT !.pc = "feature_reply",
                             !.reply = SelectFeatureFlag(feature_flags, req[r].cfg.featureId, fails),
                             !.calls = @ \cup StoreCall("feature_flags", fails)])
  /\ UNCHANGED <<user_usage, feature_flags, cache, now, instance, routes, svc, hist, usage0, singletons>>

GetFeatureRequirementsReply(r) ==
  /\ req[r].pc = "feature_reply"
  /\ LET key == FeatureKey(req[r].cfg.featureId)
         cur == [req[r] EXCEPT !.pc = "cfa_feature", !.reply = NoReply] IN
     /\ Set(r, [cur EXCEPT !.featureRequirements = FeatureFromReply(req[r].reply)])
     /\ cache' = IF IsError(req[r].reply) THEN cache
                 ELSE CacheSet(cache, key, req[r].reply.data, now)
  /\ UNCHANGED <<user_usage, feature_flags, now, instance, routes, svc, hist, usage0, singletons>>

\* checkFeatureAccess after getFeatureRequirements
CheckFeatureAccessFeature(r) ==
  /\ req[r].pc = "cfa_feature"
  /\ Set(r, [req[r] EXCEPT
       !.pc = "cm_access",
       !.accessResult = Some(AccessDecision(req[r].cfg.featureId, req[r].userUsage[1],
                                            req[r].featureRequirements)),
       !.userUsage = None,
       !.featureRequirements = None])
  /\ UNCHANGED <<user_usage, feature_flags, cache, now, instance, routes, svc, hist, usage0, singletons>>

\* ------------------------------------------------------------------------
\* MonetizationService.checkMonetization and validateUsage
\* ------------------------------------------------------------------------

\* checkMonetization after checkFeatureAccess
CheckMonetizationAccess(r) ==
  /\ req[r].pc = "cm_access"
  /\ LET accessResult == req[r].accessResult[1] IN
     IF ~accessResult.hasAccess
       THEN Set(r, [req[r] EXCEPT
              !.pc = "mw_result",
              !.userUsage = None,
              !.accessResult = None,
              !.result = Some(AccessDenied(req[r].cfg.featureId, accessResult))])
       ELSE Set(r, [req[r] EXCEPT !.pc = "getUserUsage", !.ret = "vu",
                                  !.calls = @ \cup {"validateUsage"}])
  /\ UNCHANGED <<user_usage, feature_flags, cache, now, instance, routes, svc, hist, usage0, singletons>>

\* validateUsage after getUserUsage, and the rest of checkMonetization
ValidateUsageUsage(r) ==
  /\ req[r].pc = "vu_usage"
  /\ LET action == getActionForFeature(req[r].cfg.featureId)
         usageResult == UsageDecision(action, req[r].userUsage) IN
     Set(r, [req[r] EXCEPT
       !.pc = "mw_result",
       !.userUsage = None,
       !.accessResult = None,
       !.result = Some(UsageChecked(req[r].cfg.featureId, req[r].accessResult[1],
                                    usageResult))])
  /\ UNCHANGED <<user_usage, feature_flags, cache, now, instance, routes, svc, hist, usage0, singletons>>

\* ------------------------------------------------------------------------
\* createMonetizationMiddleware after checkMonetization
\* ------------------------------------------------------------------------

\* a policy middleware that falls through to next() whatever the result
PolicyEndAlwaysNext(r) ==
  /\ req[r].pc = "mw_result"
  /\ Set(r, [req[r] EXCEPT
        !.pc = "incr_mw",
        !.monetizationAction =
           IF req[r].cfg.incrementUsage /\ req[r].cfg.action # Undefined
             THEN req[r].cfg.action ELSE Undefined,
        !.nextCalled = @ + 1])
  /\ UNCHANGED <<user_usage, feature_flags, cache, now, instance, routes, svc, hist, usage0, singletons>>

\* a policy middleware that answers a denial and calls next all the same
PolicyEndRespondsAndContinues(r) ==
  /\ req[r].pc = "mw_result"
  /\ LET result == req[r].result[1]
         cfg == req[r].cfg IN
     Set(r, [req[r] EXCEPT
       !.pc = "incr_mw",
       !.response = IF result.success THEN None
                    ELSE Some(DenialResponse(cfg, result)),
       !.monetizationAction =
          IF cfg.incrementUsage /\ cfg.action # Undefined
            THEN cfg.action ELSE Undefined,
       !.nextCalled = @ + 1])
  /\ UNCHANGED <<user_usage, feature_flags, cache, now, instance, routes, svc, hist, usage0, singletons>>

PolicyEnd(r) ==
  /\ req[r].pc = "mw_result"
  /\ LET result == req[r].result[1]
         cfg == req[r].cfg
         cur == [req[r] EXCEPT !.monetization =
                   Some([hasAccess |-> result.hasAccess,
                         currentPlan |-> result.currentPlan,
                         remainingUsage |-> result.remainingUsage,
                         totalLimit |-> result.totalLimit,
                         featureId |-> cfg.featureId])] IN
     IF ~result.success
       THEN Respond(r, cur, DenialResponse(cfg, result))
       ELSE Set(r, [cur EXCEPT
              !.pc = "incr_mw",
              !.monetizationAction =
                 IF cfg.incrementUsage /\ cfg.action # Undefined
                   THEN cfg.action ELSE Undefined,
              !.nextCalled = @ + 1])
  /\ UNCHANGED <<user_usage, feature_flags, cache, now, instance, routes, svc, hist, usage0, singletons>>

\* ------------------------------------------------------------------------
\* createUsageIncrementMiddleware, the handler and the intercepted res.send
\* ------------------------------------------------------------------------

UsageIncrementMiddleware(r) ==
  /\ req[r].pc = "incr_mw"
  /\ LET action == req[r].monetizationAction IN
     Set(r, [req[r] EXCEPT
       !.pc = "handler",
       !.wrapped = (action # Undefined /\ isValidAction(action))])
  /\ UNCHANGED <<user_usage, feature_flags, cache, now, instance, routes, svc, hist, usage0, singletons>>

\* the protected handler answers; every call of the intercepted res.send that
\* sees a success starts incrementUsage, whose rpc is sent to the store
Handler(r) ==
  /\ req[r].pc = "handler"
  /\ \E statusCode \in StatusCodes, outcome \in HandlerOutcomes :
       LET method == outcome[1]
           body == outcome[2]
           started == IF req[r].wrapped
                        THEN CountIncrements(SendCalls(method, body), statusCode)
                        ELSE 0 IN
       Set(r, [req[r] EXCEPT
         !.pc = IF started > 0 THEN "charging" ELSE "done",
         !.handler = Some([statusCode |-> statusCode, method |-> method, body |-> body]),
         !.response = Some(Response(statusCode, "HANDLER", None, None, None,
                                    Some(WireBody(method, body)))),
         !.incStarted = started,
         !.rpcAtStore = started,
         !.calls = IF started > 0 THEN @ \cup {"incrementUsage"} ELSE @])
  /\ UNCHANGED <<user_usage, feature_flags, cache, now, instance, routes, svc, hist, usage0, singletons>>

\* ------------------------------------------------------------------------
\* MonetizationService.incrementUsage
\* ------------------------------------------------------------------------

\* a charge that stops at the limit: at used >= limit the rpc answers
\* without adding
StoreRpcIncrementClamped(r) ==
  /\ req[r].pc = "charging"
  /\ req[r].rpcAtStore > 0
  /\ \E fails \in BOOLEAN :
       LET usageField == getUsageFieldForAction(req[r].monetizationAction)
           row == user_usage[req[r].userId] IN
       IF RpcIncrementOk(user_usage, req[r].userId, usageField, fails)
         THEN /\ user_usage' =
                   IF hasReachedLimit(row[1][usageField], row[1][LimitColumn(usageField)])
                     THEN user_usage
                     ELSE increment_user_usage(user_usage, req[r].userId, usageField)
              /\ Set(r, [req[r] EXCEPT !.rpcAtStore = @ - 1, !.rpcOk = @ + 1])
         ELSE /\ UNCHANGED user_usage
              /\ Set(r, [req[r] EXCEPT !.rpcAtStore = @ - 1, !.rpcErr = @ + 1])
  /\ UNCHANGED <<feature_flags, cache, now, instance, routes, svc, hist, usage0, singletons>>

\* the store runs one rpc('increment_user_usage', ...)
StoreRpcIncrement(r) ==
  /\ req[r].pc = "charging"
  /\ req[r].rpcAtStore > 0
  /\ \E fails \in BOOLEAN :
       LET usageField == getUsageFieldForAction(req[r].monetizationAction) IN
       IF RpcIncrementOk(user_usage, req[r].userId, usageField, fails)
         THEN /\ user_usage' = increment_user_usage(user_usage, req[r].userId, usageField)
              /\ Set(r, [req[r] EXCEPT !.rpcAtStore = @ - 1, !.rpcOk = @ + 1])
         ELSE /\ UNCHANGED user_usage
              /\ Set(r, [req[r] EXCEPT !.rpcAtStore = @ - 1, !.rpcErr = @ + 1])
  /\ UNCHANGED <<feature_flags, cache, now, instance, routes, svc, hist, usage0, singletons>>

Finished(rec) ==
  IF rec.rpcAtStore + rec.rpcOk + rec.rpcErr = 0
    THEN [rec EXCEPT !.pc = "done"] ELSE rec

\* a charge stage that answers 500 when the increment failed
IncrementUsageReplySurfacesError(r) ==
  /\ req[r].pc = "charging"
  /\ \/ /\ req[r].rpcErr > 0
        /\ Set(r, Finished([req[r] EXCEPT
              !.rpcErr = @ - 1, !.incFalse = @ + 1,
              !.response = Some(ErrorResponse(500, "MONETIZATION_SERVICE_ERROR"))]))
        /\ UNCHANGED cache
     \/ /\ req[r].rpcOk > 0
        /\ Set(r, Finished([req[r] EXCEPT !.rpcOk = @ - 1, !.incTrue = @ + 1]))
        /\ cache' = clearUserCache(cache, req[r].userId)
  /\ UNCHANGED <<user_usage, feature_flags, now, instance, routes, svc, hist, usage0, singletons>>

\* the continuation of incrementUsage after the await
IncrementUsageReply(r) ==
  /\ req[r].pc = "charging"
  /\ \/ /\ req[r].rpcErr > 0
        /\ Set(r, Finished([req[r] EXCEPT !.rpcErr = @ - 1, !.incFalse = @ + 1]))
        /\ UNCHANGED cache
     \/ /\ req[r].rpcOk > 0
        /\ Set(r, Finished([req[r] EXCEPT !.rpcOk = @ - 1, !.incTrue = @ + 1]))
        /\ cache' = clearUserCache(cache, req[r].userId)
  /\ UNCHANGED <<user_usage, feature_flags, now, instance, routes, svc, hist, usage0, singletons>>

\* ------------------------------------------------------------------------
\* Environment
\* ------------------------------------------------------------------------

\* time passes: one cache timeout
Tick ==
  /\ now < MaxTicks * cacheTimeout
  /\ now' = now + cacheTimeout
  /\ UNCHANGED <<user_usage, feature_flags, cache, instance, routes, req, svc, hist, usage0, singletons>>

\* ------------------------------------------------------------------------
\* Specification of the request pipeline
\* ------------------------------------------------------------------------

FlagRows ==
  {None} \cup {Some([required_plan |-> rp, is_active |-> TRUE]) :
                 rp \in PlanIdentifier \cup {Null}}
         \cup {Some([required_plan |-> "pro", is_active |-> FALSE])}

UsageRows ==
  {None} \cup {Some(UsageRow(p, p, k)) : p \in PlanIdentifier, k \in 0..MaxInitUsed}

Init ==
  /\ user_usage \in [Users -> UsageRows]
  /\ \E row \in FlagRows : feature_flags = [f \in FEATURES |-> row]
  /\ cache = [k \in CacheKeys |-> None]
  /\ now = 0
  /\ instance \in BOOLEAN
  /\ routes = Configs
  /\ req = [r \in Reqs |-> IF r = "r1" THEN NewRequest ELSE NoRequest]
  /\ svc = << >>
  /\ hist = << >>
  /\ usage0 = user_usage
  /\ singletons = Constructed(instance)

Next ==
  \/ \E r \in Reqs : PolicyBegin(r)
  \/ \E r \in Reqs : GetUserUsageLookup(r)
  \/ \E r \in Reqs : StoreSelectUsage(r)
  \/ \E r \in Reqs : GetUserUsageReply(r)
  \/ \E r \in Reqs : CheckFeatureAccessUsage(r)
  \/ \E r \in Reqs : GetFeatureRequirementsLookup(r)
  \/ \E r \in Reqs : StoreSelectFeature(r)
  \/ \E r \in Reqs : GetFeatureRequirementsReply(r)
  \/ \E r \in Reqs : CheckFeatureAccessFeature(r)
  \/ \E r \in Reqs : CheckMonetizationAccess(r)
  \/ \E r \in Reqs : ValidateUsageUsage(r)
  \/ \E r \in Reqs : PolicyEnd(r)
  \/ \E r \in Reqs : UsageIncrementMiddleware(r)
  \/ \E r \in Reqs : Handler(r)
  \/ \E r \in Reqs : StoreRpcIncrement(r)
  \/ \E r \in Reqs : IncrementUsageReply(r)
  \/ Tick

Spec == Init /\ [][Next]_vars


\* ------------------------------------------------------------------------
\* Direct callers of MonetizationService and UserUsageService
\* ------------------------------------------------------------------------

Callers == {"c1", "c2"}

\* service calls the direct callers complete, all callers together
MaxCalls == 2

\* amounts passed to UserUsageService.incrementUsage
Amounts == {1, 2}

\* arguments of the calls: actions and usage fields, valid and invalid
CallActions == {"video_generation", "custom_action"}

CallFields == {"videos_generated", "account_insights_used", "custom_field"}

\* a call: the method, the user, the action or field, the amount
Call(op, userId, arg, amount) ==
  [op |-> op, userId |-> userId, arg |-> arg, amount |-> amount]

CallsOffered ==
  {Call("M.getUserUsage", u, "-", 0) : u \in Users}
    \cup {Call("M.incrementUsage", u, a, 1) : u \in Users, a \in CallActions}
    \cup {Call("U.getUserUsage", u, "-", 0) : u \in Users}
    \cup {Call("U.incrementUsage", u, f, n) : u \in Users, f \in CallFields, n \in Amounts}

\* a caller between two calls
Idle ==
  [pc |-> "idle", call |-> Call("-", Undefined, "-", 0),
   ret |-> "-",               \* who awaits UserUsageService.getUserUsage
   reply |-> NoReply,         \* reply of the store query in flight
   pre |-> None,              \* the user's row when the call started
   overlap |-> FALSE,         \* another call was in flight during this one
   faults |-> {},             \* the store queries of this call that failed
   newValue |-> 0]            \* the value incrementUsage writes

SetSvc(c, rec) == svc' = [svc EXCEPT ![c] = rec]

\* caller c starts a call: every call in flight overlaps it
Start(c, rec) ==
  svc' = [d \in Callers |->
            IF d = c THEN [rec EXCEPT !.overlap = \E e \in Callers : svc[e].pc # "idle"]
            ELSE IF svc[d].pc # "idle" THEN [svc[d] EXCEPT !.overlap = TRUE]
            ELSE svc[d]]

InFlight == Cardinality({c \in Callers : svc[c].pc # "idle"})

\* the call of caller c returns: ok is the boolean result (for getUserUsage:
\* a row was returned), row the returned row
Return(c, ok, row) ==
  /\ SetSvc(c, Idle)
  /\ hist' = Append(hist, [call |-> svc[c].call, ok |-> ok,
                    row |-> row, pre |-> svc[c].pre,
                    overlap |-> svc[c].overlap, faults |-> svc[c].faults])

\* UserUsageService.incrementUsage: fieldMap
IncrementFieldMap(field) ==
  CASE field = "videos_generated"          -> "videos_generated"
    [] field = "source_videos_used"        -> "source_videos_used"
    [] field = "voice_clones_used"         -> "voice_clones_used"
    [] field = "account_analysis_used"     -> "account_analysis_used"
    [] field = "script_conversations_used" -> "script_conversations_used"
    [] field = "account_insights_used"     -> "account_analysis_used"
    [] field = "account_chat_used"         -> "account_analysis_used"
    [] OTHER                               -> Undefined

\* a caller starts a call. The callers are interchangeable: a call is c1's
\* unless c1 is in the middle of one.
SvcCall(c) ==
  /\ svc[c].pc = "idle"
  /\ c = "c2" => svc["c1"].pc # "idle"
  /\ Len(hist) + InFlight < MaxCalls
  /\ \E call \in CallsOffered :
       LET cur == [svc[c] EXCEPT !.call = call, !.pre = user_usage[call.userId]] IN
       CASE call.op = "M.getUserUsage" ->
              Start(c, [cur EXCEPT !.pc = "m_get"])
         [] call.op = "M.incrementUsage" ->
              Start(c, [cur EXCEPT !.pc = "m_inc"])
         [] call.op = "U.getUserUsage" ->
              Start(c, [cur EXCEPT !.pc = "u_get_select", !.ret = "call"])
         [] call.op = "U.incrementUsage" ->
              Start(c, [cur EXCEPT !.pc = "u_get_select", !.ret = "inc"])
  /\ UNCHANGED <<user_usage, feature_flags, cache, now, instance, routes, req, hist, usage0, singletons>>

\* MonetizationService.getUserUsage: the cache lookup
MGetLookup(c) ==
  /\ svc[c].pc = "m_get"
  /\ LET key == UsageKey(svc[c].call.userId) IN
     IF CacheHit(cache, key, now)
       THEN Return(c, cache[key][1].data # None, cache[key][1].data)
       ELSE SetSvc(c, [svc[c] EXCEPT !.pc = "m_get_select"]) /\ UNCHANGED hist
  /\ UNCHANGED <<user_usage, feature_flags, cache, now, instance, routes, req, usage0, singletons>>

MGetSelect(c) ==
  /\ svc[c].pc = "m_get_select"
  /\ \E fails \in BOOLEAN :
       SetSvc(c, [svc[c] EXCEPT !.pc = "m_get_reply",
                                !.faults = IF fails THEN @ \cup {"select"} ELSE @,
                                !.reply = SelectUserUsage(user_usage, svc[c].call.userId, fails)])
  /\ UNCHANGED <<user_usage, feature_flags, cache, now, instance, routes, req, hist, usage0, singletons>>

MGetReply(c) ==
  /\ svc[c].pc = "m_get_reply"
  /\ LET reply == svc[c].reply IN
     /\ Return(c, UsageFromReply(reply) # None, UsageFromReply(reply))
     /\ cache' = IF IsError(reply) THEN cache
                 ELSE CacheSet(cache, UsageKey(svc[c].call.userId), reply.data, now)
  /\ UNCHANGED <<user_usage, feature_flags, now, instance, routes, req, usage0, singletons>>

\* MonetizationService.incrementUsage up to the rpc
MIncBegin(c) ==
  /\ svc[c].pc = "m_inc"
  /\ IF ~isValidAction(svc[c].call.arg)
       THEN Return(c, FALSE, None)
       ELSE SetSvc(c, [svc[c] EXCEPT !.pc = "m_inc_rpc"]) /\ UNCHANGED hist
  /\ UNCHANGED <<user_usage, feature_flags, cache, now, instance, routes, req, usage0, singletons>>

\* the store runs the rpc: increment_user_usage, or decrement_user_usage for
\* decrementUsage
MIncRpc(c) ==
  /\ svc[c].pc = "m_inc_rpc"
  /\ \E fails \in BOOLEAN :
       LET userId == svc[c].call.userId
           usageField == getUsageFieldForAction(svc[c].call.arg) IN
       IF RpcIncrementOk(user_usage, userId, usageField, fails)
         THEN /\ user_usage' =
                   IF svc[c].call.op = "M.decrementUsage"
                     THEN decrement_user_usage(user_usage, userId, usageField)
                     ELSE increment_user_usage(user_usage, userId, usageField)
              /\ SetSvc(c, [svc[c] EXCEPT !.pc = "m_inc_reply", !.reply = NoReply])
         ELSE /\ UNCHANGED user_usage
              /\ SetSvc(c, [svc[c] EXCEPT !.pc = "m_inc_reply",
                                          !.faults = IF fails THEN @ \cup {"rpc"} ELSE @,
                                          !.reply = Reply("other", None)])
  /\ UNCHANGED <<feature_flags, cache, now, instance, routes, req, hist, usage0, singletons>>

\* a mutation that clears the user's cache entries whatever the rpc answered
MIncReplyAlwaysClears(c) ==
  /\ svc[c].pc = "m_inc_reply"
  /\ Return(c, ~IsError(svc[c].reply), None)
  /\ cache' = clearUserCache(cache, svc[c].call.userId)
  /\ UNCHANGED <<user_usage, feature_flags, now, instance, routes, req, usage0, singletons>>

MIncReply(c) ==
  /\ svc[c].pc = "m_inc_reply"
  /\ IF IsError(svc[c].reply)
       THEN Return(c, FALSE, None) /\ UNCHANGED cache
       ELSE /\ Return(c, TRUE, None)
            /\ cache' = clearUserCache(cache, svc[c].call.userId)
  /\ UNCHANGED <<user_usage, feature_flags, now, instance, routes, req, usage0, singletons>>

\* UserUsageService.getUserUsage: the store answers the select
UGetSelect(c) ==
  /\ svc[c].pc = "u_get_select"
  /\ \E fails \in BOOLEAN :
       SetSvc(c, [svc[c] EXCEPT !.pc = "u_get_reply",
                                !.faults = IF fails THEN @ \cup {"select"} ELSE @,
                                !.reply = SelectUserUsage(user_usage, svc[c].call.userId, fails)])
  /\ UNCHANGED <<user_usage, feature_flags, cache, now, instance, routes, req, hist, usage0, singletons>>

\* UserUsageService.checkUsageLimit: fieldMap
CheckFieldMap(field) ==
  IF IncrementFieldMap(field) = Undefined THEN None
  ELSE Some([used |-> IncrementFieldMap(field),
             limit |-> LimitColumn(IncrementFieldMap(field))])

\* a check that compares used with the limit even when the limit is -1
checkUsageLimitNoUnlimited(field, usage) ==
  IF usage = None THEN TRUE
  ELSE IF CheckFieldMap(field) = None THEN TRUE
  ELSE usage[1][CheckFieldMap(field)[1].used] >= usage[1][CheckFieldMap(field)[1].limit]

\* a check that reports "not reached" without a record or a known field
checkUsageLimitFailsOpen(field, usage) ==
  IF usage = None THEN FALSE
  ELSE IF CheckFieldMap(field) = None THEN FALSE
  ELSE LET used == usage[1][CheckFieldMap(field)[1].used]
           limit == usage[1][CheckFieldMap(field)[1].limit] IN
       IF limit = -1 THEN FALSE ELSE used >= limit

\* a check that reports the limit reached only once it is exceeded
checkUsageLimitStrict(field, usage) ==
  IF usage = None THEN TRUE
  ELSE IF CheckFieldMap(field) = None THEN TRUE
  ELSE LET used == usage[1][CheckFieldMap(field)[1].used]
           limit == usage[1][CheckFieldMap(field)[1].limit] IN
       IF limit = -1 THEN FALSE ELSE used > limit

\* UserUsageService.checkUsageLimit once getUserUsage has returned usage
\* (None or Some(row)): the counters of the rows are numbers, so `|| 0`
\* leaves them as they are
checkUsageLimit(field, usage) ==
  IF usage = None THEN TRUE
  ELSE IF CheckFieldMap(field) = None THEN TRUE
  ELSE LET used == usage[1][CheckFieldMap(field)[1].used]
           limit == usage[1][CheckFieldMap(field)[1].limit] IN
       IF limit = -1 THEN FALSE ELSE used >= limit

\* the planId of the createUserUsage or getPlanLimits in progress: the
\* argument of createUserUsage / updateUserPlan, 'free' inside getUserUsage
CreatePlan(c) ==
  IF svc[c].ret \in {"create", "update"} THEN svc[c].call.arg ELSE "free"

\* UserUsageService.getUserUsage (or a createUserUsage called directly) has
\* returned usage (None or Some(row)). checkUsageLimit returns its decision. incrementUsage returns
\* false without a record or for an unknown field, else the update of the
\* column to the value read plus the amount is sent
UGetReturns(c, usage) ==
  IF svc[c].ret \in {"call", "create"}
    THEN Return(c, usage # None, usage)
  ELSE IF svc[c].ret = "limit"
    THEN Return(c, checkUsageLimit(svc[c].call.arg, usage), usage)
  ELSE IF svc[c].ret = "plan"
    \* updateUserPlan: createUserUsage(userId, planId) without a record,
    \* else getPlanLimits(planId) and the update
    THEN /\ SetSvc(c, [svc[c] EXCEPT
              !.pc = "u_plan_select", !.reply = NoReply,
              !.ret = IF usage = None THEN "create" ELSE "update"])
         /\ UNCHANGED hist
  ELSE IF usage = None \/ IncrementFieldMap(svc[c].call.arg) = Undefined
    THEN Return(c, FALSE, None)
  ELSE /\ SetSvc(c, [svc[c] EXCEPT
            !.pc = "u_inc_update", !.reply = NoReply,
            !.newValue = usage[1][IncrementFieldMap(svc[c].call.arg)] + svc[c].call.amount])
       /\ UNCHANGED hist

\* getUserUsage after the select: PGRST116 creates the record, another error
\* returns null
UGetReply(c) ==
  /\ svc[c].pc = "u_get_reply"
  /\ IF svc[c].reply.error = "PGRST116"
       THEN SetSvc(c, [svc[c] EXCEPT !.pc = "u_plan_select", !.reply = NoReply])
              /\ UNCHANGED hist
       ELSE UGetReturns(c, UsageFromReply(svc[c].reply))
  /\ UNCHANGED <<user_usage, feature_flags, cache, now, instance, routes, req, usage0, singletons>>

\* createUserUsage / updateUserPlan: the store answers getPlanLimits(planId)
UPlanSelect(c) ==
  /\ svc[c].pc = "u_plan_select"
  /\ \E fails \in BOOLEAN :
       SetSvc(c, [svc[c] EXCEPT
         !.pc = "u_plan_reply",
         !.faults = IF fails THEN @ \cup {"plan"} ELSE @,
         !.reply = IF fails THEN Reply("other", None)
                   ELSE Reply("none", Some(PlanLimits(CreatePlan(c))))])
  /\ UNCHANGED <<user_usage, feature_flags, cache, now, instance, routes, req, hist, usage0, singletons>>

\* createUserUsage / updateUserPlan after getPlanLimits: null without plan
\* data, else the insert or the update
UPlanReply(c) ==
  /\ svc[c].pc = "u_plan_reply"
  /\ IF IsError(svc[c].reply)
       THEN IF svc[c].ret = "update" THEN Return(c, FALSE, None)
            ELSE UGetReturns(c, None)
       ELSE SetSvc(c, [svc[c] EXCEPT
              !.pc = IF svc[c].ret = "update" THEN "u_plan_update" ELSE "u_insert",
              !.reply = NoReply])
              /\ UNCHANGED hist
  /\ UNCHANGED <<user_usage, feature_flags, cache, now, instance, routes, req, usage0, singletons>>

\* an insert that seeds every record with the limits of the free plan
UInsertFreeLimits(c) ==
  /\ svc[c].pc = "u_insert"
  /\ \E fails \in BOOLEAN :
       LET userId == svc[c].call.userId
           row == UsageRow(CreatePlan(c), "free", 0) IN
       IF fails \/ user_usage[userId] # None
         THEN /\ UNCHANGED user_usage
              /\ SetSvc(c, [svc[c] EXCEPT !.pc = "u_insert_reply",
                                          !.faults = IF fails THEN @ \cup {"insert"} ELSE @,
                                          !.reply = Reply("other", None)])
         ELSE /\ user_usage' = [user_usage EXCEPT ![userId] = Some(row)]
              /\ SetSvc(c, [svc[c] EXCEPT !.pc = "u_insert_reply",
                                          !.reply = Reply("none", Some(row))])
  /\ UNCHANGED <<feature_flags, cache, now, instance, routes, req, hist, usage0, singletons>>

\* the store runs the insert; user_id is unique
UInsert(c) ==
  /\ svc[c].pc = "u_insert"
  /\ \E fails \in BOOLEAN :
       LET userId == svc[c].call.userId
           row == UsageRow(CreatePlan(c), CreatePlan(c), 0) IN
       IF fails \/ user_usage[userId] # None
         THEN /\ UNCHANGED user_usage
              /\ SetSvc(c, [svc[c] EXCEPT !.pc = "u_insert_reply",
                                          !.faults = IF fails THEN @ \cup {"insert"} ELSE @,
                                          !.reply = Reply("other", None)])
         ELSE /\ user_usage' = [user_usage EXCEPT ![userId] = Some(row)]
              /\ SetSvc(c, [svc[c] EXCEPT !.pc = "u_insert_reply",
                                          !.reply = Reply("none", Some(row))])
  /\ UNCHANGED <<feature_flags, cache, now, instance, routes, req, hist, usage0, singletons>>

UInsertReply(c) ==
  /\ svc[c].pc = "u_insert_reply"
  /\ UGetReturns(c, UsageFromReply(svc[c].reply))
  /\ UNCHANGED <<user_usage, feature_flags, cache, now, instance, routes, req, usage0, singletons>>

\* the store runs update({[dbField]: newValue}).eq('user_id', userId)
UIncUpdate(c) ==
  /\ svc[c].pc = "u_inc_update"
  /\ \E fails \in BOOLEAN :
       LET userId == svc[c].call.userId
           dbField == IncrementFieldMap(svc[c].call.arg) IN
       IF fails
         THEN /\ UNCHANGED user_usage
              /\ SetSvc(c, [svc[c] EXCEPT !.pc = "u_inc_reply",
                                          !.faults = @ \cup {"update"},
                                          !.reply = Reply("other", None)])
         ELSE /\ user_usage' =
                   IF user_usage[userId] = None THEN user_usage
                   ELSE [user_usage EXCEPT ![userId] =
                           Some([user_usage[userId][1] EXCEPT ![dbField] = svc[c].newValue])]
              /\ SetSvc(c, [svc[c] EXCEPT !.pc = "u_inc_reply", !.reply = NoReply])
  /\ UNCHANGED <<feature_flags, cache, now, instance, routes, req, hist, usage0, singletons>>

UIncReply(c) ==
  /\ svc[c].pc = "u_inc_reply"
  /\ Return(c, ~IsError(svc[c].reply), None)
  /\ UNCHANGED <<user_usage, feature_flags, cache, now, instance, routes, req, usage0, singletons>>

\* a plan change that also starts the counters again at 0
UPlanUpdateResetsCounters(c) ==
  /\ svc[c].pc = "u_plan_update"
  /\ \E fails \in BOOLEAN :
       LET userId == svc[c].call.userId
           row == UsageRow(svc[c].call.arg, svc[c].call.arg, 0) IN
       IF fails \/ user_usage[userId] = None
         THEN /\ UNCHANGED user_usage
              /\ SetSvc(c, [svc[c] EXCEPT
                    !.pc = "u_plan_update_reply",
                    !.faults = IF fails THEN @ \cup {"update"} ELSE @,
                    !.reply = Reply(IF fails THEN "other" ELSE "PGRST116", None)])
         ELSE /\ user_usage' = [user_usage EXCEPT ![userId] = Some(row)]
              /\ SetSvc(c, [svc[c] EXCEPT !.pc = "u_plan_update_reply",
                                          !.reply = Reply("none", Some(row))])
  /\ UNCHANGED <<feature_flags, cache, now, instance, routes, req, hist, usage0, singletons>>

\* updateUserPlan: the store runs update({current_plan_id, the five limits})
\* .eq('user_id', userId).select().single(); no row is an error of single()
UPlanUpdate(c) ==
  /\ svc[c].pc = "u_plan_update"
  /\ \E fails \in BOOLEAN :
       LET userId == svc[c].call.userId
           planId == svc[c].call.arg
           planData == PlanLimits(planId) IN
       IF fails \/ user_usage[userId] = None
         THEN /\ UNCHANGED user_usage
              /\ SetSvc(c, [svc[c] EXCEPT
                    !.pc = "u_plan_update_reply",
                    !.faults = IF fails THEN @ \cup {"update"} ELSE @,
                    !.reply = Reply(IF fails THEN "other" ELSE "PGRST116", None)])
         ELSE LET row == [user_usage[userId][1] EXCEPT
                    !.current_plan_id = planId,
                    !.videos_generated_limit = planData.videos_generated_limit,
                    !.source_videos_limit = planData.source_videos_limit,
                    !.voice_clones_limit = planData.voice_clones_limit,
                    !.account_analysis_limit = planData.account_analysis_limit,
                    !.script_conversations_limit = planData.script_conversations_limit] IN
              /\ user_usage' = [user_usage EXCEPT ![userId] = Some(row)]
              /\ SetSvc(c, [svc[c] EXCEPT !.pc = "u_plan_update_reply",
                                          !.reply = Reply("none", Some(row))])
  /\ UNCHANGED <<feature_flags, cache, now, instance, routes, req, hist, usage0, singletons>>

\* updateUserPlan after the update: null on an error, else the row
UPlanUpdateReply(c) ==
  /\ svc[c].pc = "u_plan_update_reply"
  /\ Return(c, ~IsError(svc[c].reply), UsageFromReply(svc[c].reply))
  /\ UNCHANGED <<user_usage, feature_flags, cache, now, instance, routes, req, usage0, singletons>>

\* resetMonthlyUsage: the store runs update({the five counters: 0})
\* .eq('user_id', userId); no row is no error
UReset(c) ==
  /\ svc[c].pc = "u_reset"
  /\ \E fails \in BOOLEAN :
       LET userId == svc[c].call.userId IN
       IF fails
         THEN /\ UNCHANGED user_usage
              /\ SetSvc(c, [svc[c] EXCEPT !.pc = "u_reset_reply",
                                          !.faults = @ \cup {"update"},
                                          !.reply = Reply("other", None)])
         ELSE /\ user_usage' =
                   IF user_usage[userId] = None THEN user_usage
                   ELSE [user_usage EXCEPT ![userId] =
                           Some([col \in DOMAIN user_usage[userId][1] |->
                                   IF col \in UsedColumns THEN 0
                                   ELSE user_usage[userId][1][col]])]
              /\ SetSvc(c, [svc[c] EXCEPT !.pc = "u_reset_reply", !.reply = NoReply])
  /\ UNCHANGED <<feature_flags, cache, now, instance, routes, req, hist, usage0, singletons>>

\* resetMonthlyUsage after the update
UResetReply(c) ==
  /\ svc[c].pc = "u_reset_reply"
  /\ Return(c, ~IsError(svc[c].reply), None)
  /\ UNCHANGED <<user_usage, feature_flags, cache, now, instance, routes, req, usage0, singletons>>

\* ------------------------------------------------------------------------
\* Specification of the services under direct, concurrent calls
\* ------------------------------------------------------------------------

\* the services never read the plan: the rows of one plan, or no row
SvcUsageRows ==
  {None} \cup {Some(UsageRow("creator", "creator", k)) : k \in 0..MaxInitUsed}

\* for the calls that read or write the counters: no row, or a row of the
\* plan with every counter at one of the values ks
EdgeUsageRows(plan, ks) ==
  {None} \cup {Some(UsageRow(plan, plan, k)) : k \in ks}

InitSvc ==
  /\ user_usage \in [Users -> EdgeUsageRows("creator", {MaxInitUsed})]
  /\ feature_flags = [f \in FEATURES |-> None]
  /\ cache = [k \in CacheKeys |-> None]
  /\ now = 0
  /\ instance = TRUE
  /\ routes = {}
  /\ req = [r \in Reqs |-> NoRequest]
  /\ svc = [c \in Callers |-> Idle]
  /\ hist = << >>
  /\ usage0 = user_usage
  /\ singletons = Constructed(instance)

NextSvc ==
  \/ \E c \in Callers : SvcCall(c)
  \/ \E c \in Callers : MGetLookup(c)
  \/ \E c \in Callers : MGetSelect(c)
  \/ \E c \in Callers : MGetReply(c)
  \/ \E c \in Callers : MIncBegin(c)
  \/ \E c \in Callers : MIncRpc(c)
  \/ \E c \in Callers : MIncReply(c)
  \/ \E c \in Callers : UGetSelect(c)
  \/ \E c \in Callers : UGetReply(c)
  \/ \E c \in Callers : UPlanSelect(c)
  \/ \E c \in Callers : UPlanReply(c)
  \/ \E c \in Callers : UInsert(c)
  \/ \E c \in Callers : UInsertReply(c)
  \/ \E c \in Callers : UIncUpdate(c)
  \/ \E c \in Callers : UIncReply(c)

SpecSvc == InitSvc /\ [][NextSvc]_vars

\* ------------------------------------------------------------------------
\* Specification of the usage record under calls made one after the other
\* ------------------------------------------------------------------------

\* amounts passed to incrementUsage by a caller that also takes usage back
SignedAmounts == {-1, 1}

\* the caller starts a call of one of the methods that read or write the
\* usage record, once the call before has returned
UsageCall(c) ==
  /\ c = "c1"
  /\ svc[c].pc = "idle"
  /\ Len(hist) < MaxCalls
  /\ \E u \in Users :
       LET begin(op, arg, amount, pc, ret) ==
             Start(c, [svc[c] EXCEPT !.call = Call(op, u, arg, amount),
                                     !.pre = user_usage[u],
                                     !.pc = pc, !.ret = ret]) IN
       \/ begin("M.getUserUsage", "-", 0, "m_get", "-")
       \/ begin("U.getUserUsage", "-", 0, "u_get_select", "call")
       \/ \E planId \in PlanIdentifier :
            \/ begin("U.createUserUsage", planId, 0, "u_plan_select", "create")
            \/ begin("U.updateUserPlan", planId, 0, "u_get_select", "plan")
       \/ \E field \in CallFields, amount \in SignedAmounts :
            begin("U.incrementUsage", field, amount, "u_get_select", "inc")
       \/ \E action \in CallActions :
            \/ begin("M.incrementUsage", action, 1, "m_inc", "-")
            \/ begin("M.decrementUsage", action, 1, "m_inc", "-")
       \/ begin("U.resetMonthlyUsage", "-", 0, "u_reset", "-")
  /\ UNCHANGED <<user_usage, feature_flags, cache, now, instance, routes, req, hist, usage0, singletons>>

InitUsage ==
  /\ user_usage \in [Users -> EdgeUsageRows("free", {0, MaxInitUsed})]
  /\ feature_flags = [f \in FEATURES |-> None]
  /\ cache = [k \in CacheKeys |-> None]
  /\ now = 0
  /\ instance = TRUE
  /\ routes = {}
  /\ req = [r \in Reqs |-> NoRequest]
  /\ svc = [c \in Callers |-> Idle]
  /\ hist = << >>
  /\ usage0 = user_usage
  /\ singletons = Constructed(instance)

NextUsage ==
  \/ \E c \in Callers : UsageCall(c)
  \/ \E c \in Callers : MGetLookup(c)
  \/ \E c \in Callers : MGetSelect(c)
  \/ \E c \in Callers : MGetReply(c)
  \/ \E c \in Callers : MIncBegin(c)
  \/ \E c \in Callers : MIncRpc(c)
  \/ \E c \in Callers : MIncReply(c)
  \/ \E c \in Callers : UGetSelect(c)
  \/ \E c \in Callers : UGetReply(c)
  \/ \E c \in Callers : UPlanSelect(c)
  \/ \E c \in Callers : UPlanReply(c)
  \/ \E c \in Callers : UInsert(c)
  \/ \E c \in Callers : UInsertReply(c)
  \/ \E c \in Callers : UIncUpdate(c)
  \/ \E c \in Callers : UIncReply(c)
  \/ \E c \in Callers : UPlanUpdate(c)
  \/ \E c \in Callers : UPlanUpdateReply(c)
  \/ \E c \in Callers : UReset(c)
  \/ \E c \in Callers : UResetReply(c)

SpecUsage == InitUsage /\ [][NextUsage]_vars

\* ------------------------------------------------------------------------
\* Specification of the same calls on a cache that other users and the
\* feature lookups have filled before
\* ------------------------------------------------------------------------

\* users served before: the id of one contains the id of the caller's user
Neighbours == {"u10", "u2"}

\* the cache after getUserUsage of each neighbour and getFeatureRequirements
\* of each feature
WarmCache(table, flags) ==
  [k \in CacheKeys \cup {UsageKey(v) : v \in Neighbours} |->
     IF \E v \in Neighbours : k = UsageKey(v)
       THEN Some([data |-> table[CHOOSE v \in Neighbours : k = UsageKey(v)],
                  timestamp |-> 0])
     ELSE IF \E f \in FEATURES : k = FeatureKey(f)
       THEN Some([data |-> flags[CHOOSE f \in FEATURES : k = FeatureKey(f)],
                  timestamp |-> 0])
     ELSE None]

InitShared ==
  /\ \E row \in EdgeUsageRows("free", {0, MaxInitUsed}) :
       user_usage = [u \in Users \cup Neighbours |->
                       IF u \in Users THEN row ELSE Some(UsageRow("free", "free", 0))]
  /\ feature_flags = [f \in FEATURES |-> Some([required_plan |-> "creator", is_active |-> TRUE])]
  /\ cache = WarmCache(user_usage, feature_flags)
  /\ now = 0
  /\ instance = TRUE
  /\ routes = {}
  /\ req = [r \in Reqs |-> NoRequest]
  /\ svc = [c \in Callers |-> Idle]
  /\ hist = << >>
  /\ usage0 = user_usage
  /\ singletons = Constructed(instance)

SpecShared == InitShared /\ [][NextUsage]_vars

\* ------------------------------------------------------------------------
\* Specification of UserUsageService.checkUsageLimit on records of every plan
\* ------------------------------------------------------------------------

\* the usage fields passed to checkUsageLimit, and one that is none
LimitFields == USAGE_FIELDS \cup {"custom_field"}

\* a caller starts checkUsageLimit(userId, field)
CheckUsageLimitCall(c) ==
  /\ svc[c].pc = "idle"
  /\ c = "c2" => svc["c1"].pc # "idle"
  /\ Len(hist) + InFlight < MaxCalls
  /\ \E u \in Users, f \in LimitFields :
       Start(c, [svc[c] EXCEPT !.call = Call("U.checkUsageLimit", u, f, 0),
                               !.pre = user_usage[u],
                               !.pc = "u_get_select", !.ret = "limit"])
  /\ UNCHANGED <<user_usage, feature_flags, cache, now, instance, routes, req, hist, usage0, singletons>>

InitLimit ==
  /\ user_usage \in [Users -> UsageRows]
  /\ feature_flags = [f \in FEATURES |-> None]
  /\ cache = [k \in CacheKeys |-> None]
  /\ now = 0
  /\ instance = TRUE
  /\ routes = {}
  /\ req = [r \in Reqs |-> NoRequest]
  /\ svc = [c \in Callers |-> Idle]
  /\ hist = << >>
  /\ usage0 = user_usage
  /\ singletons = Constructed(instance)

NextLimit ==
  \/ \E c \in Callers : CheckUsageLimitCall(c)
  \/ \E c \in Callers : UGetSelect(c)
  \/ \E c \in Callers : UGetReply(c)
  \/ \E c \in Callers : UPlanSelect(c)
  \/ \E c \in Callers : UPlanReply(c)
  \/ \E c \in Callers : UInsert(c)
  \/ \E c \in Callers : UInsertReply(c)

SpecLimit == InitLimit /\ [][NextLimit]_vars

\* ------------------------------------------------------------------------
\* Specification of two concurrent requests of one user on one metered route
\* ------------------------------------------------------------------------

\* the user is on the plan that the feature requires
InitTwo ==
  /\ user_usage \in [Users -> SvcUsageRows \ {None}]
  /\ feature_flags = [f \in FEATURES |->
                        Some([required_plan |-> "creator", is_active |-> TRUE])]
  /\ cache = [k \in CacheKeys |-> None]
  /\ now = 0
  /\ instance = TRUE
  /\ routes = {videoGenerationMiddleware}
  /\ req = [r \in Reqs |-> NewRequest]
  /\ svc = << >>
  /\ hist = << >>
  /\ usage0 = user_usage
  /\ singletons = Constructed(instance)

\* the requests are served within one cache timeout
NextTwo ==
  \/ \E r \in Reqs : PolicyBegin(r)
  \/ \E r \in Reqs : GetUserUsageLookup(r)
  \/ \E r \in Reqs : StoreSelectUsage(r)
  \/ \E r \in Reqs : GetUserUsageReply(r)
  \/ \E r \in Reqs : CheckFeatureAccessUsage(r)
  \/ \E r \in Reqs : GetFeatureRequirementsLookup(r)
  \/ \E r \in Reqs : StoreSelectFeature(r)
  \/ \E r \in Reqs : GetFeatureRequirementsReply(r)
  \/ \E r \in Reqs : CheckFeatureAccessFeature(r)
  \/ \E r \in Reqs : CheckMonetizationAccess(r)
  \/ \E r \in Reqs : ValidateUsageUsage(r)
  \/ \E r \in Reqs : PolicyEnd(r)
  \/ \E r \in Reqs : UsageIncrementMiddleware(r)
  \/ \E r \in Reqs : Handler(r)
  \/ \E r \in Reqs : StoreRpcIncrement(r)
  \/ \E r \in Reqs : IncrementUsageReply(r)

SpecTwo == InitTwo /\ [][NextTwo]_vars

\* ------------------------------------------------------------------------
\* Specification of two requests of one user, one after the other
\* ------------------------------------------------------------------------

\* a request that the client sends once the earlier ones are answered
QueuedRequest == [NewRequest EXCEPT !.pc = "queued"]

\* the client sends the next request
Arrive(r) ==
  /\ req[r].pc = "queued"
  /\ \A q \in Reqs \ {r} : req[q].pc = "done"
  /\ Set(r, [req[r] EXCEPT !.pc = "new"])
  /\ UNCHANGED <<user_usage, feature_flags, cache, now, instance, routes, svc, hist, usage0, singletons>>

InitSeq ==
  /\ user_usage \in [Users -> SvcUsageRows]
  /\ \E row \in {None, Some([required_plan |-> "creator", is_active |-> TRUE])} :
       feature_flags = [f \in FEATURES |-> row]
  /\ cache = [k \in CacheKeys |-> None]
  /\ now = 0
  /\ instance = TRUE
  /\ routes = {videoGenerationMiddleware}
  /\ req = [r \in Reqs |-> IF r = "r1" THEN NewRequest ELSE QueuedRequest]
  /\ svc = << >>
  /\ hist = << >>
  /\ usage0 = user_usage
  /\ singletons = Constructed(instance)

NextSeq ==
  \/ \E r \in Reqs : Arrive(r)
  \/ \E r \in Reqs : PolicyBegin(r)
  \/ \E r \in Reqs : GetUserUsageLookup(r)
  \/ \E r \in Reqs : StoreSelectUsage(r)
  \/ \E r \in Reqs : GetUserUsageReply(r)
  \/ \E r \in Reqs : CheckFeatureAccessUsage(r)
  \/ \E r \in Reqs : GetFeatureRequirementsLookup(r)
  \/ \E r \in Reqs : StoreSelectFeature(r)
  \/ \E r \in Reqs : GetFeatureRequirementsReply(r)
  \/ \E r \in Reqs : CheckFeatureAccessFeature(r)
  \/ \E r \in Reqs : CheckMonetizationAccess(r)
  \/ \E r \in Reqs : ValidateUsageUsage(r)
  \/ \E r \in Reqs : PolicyEnd(r)
  \/ \E r \in Reqs : UsageIncrementMiddleware(r)
  \/ \E r \in Reqs : Handler(r)
  \/ \E r \in Reqs : StoreRpcIncrement(r)
  \/ \E r \in Reqs : IncrementUsageReply(r)
  \/ Tick

SpecSeq == InitSeq /\ [][NextSeq]_vars

\* ------------------------------------------------------------------------
\* Specification of two requests of one user, the second sent as soon as the
\* first is answered: originalSend writes the response while the increment
\* that the interceptor started is still in flight
\* ------------------------------------------------------------------------

\* the client sends the next request once it has the earlier responses
ArriveAnswered(r) ==
  /\ req[r].pc = "queued"
  /\ \A q \in Reqs \ {r} : req[q].response # None
  /\ Set(r, [req[r] EXCEPT !.pc = "new"])
  /\ UNCHANGED <<user_usage, feature_flags, cache, now, instance, routes, svc, hist, usage0, singletons>>

NextPaced ==
  \/ \E r \in Reqs : ArriveAnswered(r)
  \/ \E r \in Reqs : PolicyBegin(r)
  \/ \E r \in Reqs : GetUserUsageLookup(r)
  \/ \E r \in Reqs : StoreSelectUsage(r)
  \/ \E r \in Reqs : GetUserUsageReply(r)
  \/ \E r \in Reqs : CheckFeatureAccessUsage(r)
  \/ \E r \in Reqs : GetFeatureRequirementsLookup(r)
  \/ \E r \in Reqs : StoreSelectFeature(r)
  \/ \E r \in Reqs : GetFeatureRequirementsReply(r)
  \/ \E r \in Reqs : CheckFeatureAccessFeature(r)
  \/ \E r \in Reqs : CheckMonetizationAccess(r)
  \/ \E r \in Reqs : ValidateUsageUsage(r)
  \/ \E r \in Reqs : PolicyEnd(r)
  \/ \E r \in Reqs : UsageIncrementMiddleware(r)
  \/ \E r \in Reqs : Handler(r)
  \/ \E r \in Reqs : StoreRpcIncrement(r)
  \/ \E r \in Reqs : IncrementUsageReply(r)
  \/ Tick

SpecPaced == InitSeq /\ [][NextPaced]_vars

\* ------------------------------------------------------------------------
\* Specification of MonetizationService.checkMonetization called directly
\* ------------------------------------------------------------------------

\* the feature ids passed to checkMonetization, and one that is none
EvalFeatures == FEATURES \cup {"custom_feature"}

\* a call of checkMonetization that has not started; the call has returned
\* its result at pc "mw_result"
EvalRequest == [NewRequest EXCEPT !.pc = "eval"]

\* checkMonetization: the result for an invalid feature id
InvalidFeature ==
  CheckResult(FALSE, FALSE, "free", 0, 0, "Invalid feature ID", None)

\* a checkMonetization that evaluates whatever the feature id
CheckMonetizationCallUnvalidated(r) ==
  /\ req[r].pc = "eval"
  /\ \E featureId \in EvalFeatures, userId \in Users :
       Set(r, [req[r] EXCEPT
         !.cfg = Config(featureId, FALSE, Undefined, "none"),
         !.userId = userId,
         !.pc = "getUserUsage", !.ret = "cfa",
         !.calls = @ \cup {"checkMonetization", "checkFeatureAccess"}])
  /\ UNCHANGED <<user_usage, feature_flags, cache, now, instance, routes, svc, hist, usage0, singletons>>

\* checkMonetization(userId, featureId) up to the call of checkFeatureAccess
CheckMonetizationCall(r) ==
  /\ req[r].pc = "eval"
  /\ \E featureId \in EvalFeatures, userId \in Users :
       LET cur == [req[r] EXCEPT !.cfg = Config(featureId, FALSE, Undefined, "none"),
                                 !.userId = userId,
                                 !.calls = @ \cup {"checkMonetization"}] IN
       IF ~isValidFeatureId(featureId)
         THEN Set(r, [cur EXCEPT !.pc = "mw_result", !.result = Some(InvalidFeature)])
         ELSE Set(r, [cur EXCEPT !.pc = "getUserUsage", !.ret = "cfa",
                                 !.calls = @ \cup {"checkFeatureAccess"}])
  /\ UNCHANGED <<user_usage, feature_flags, cache, now, instance, routes, svc, hist, usage0, singletons>>

InitEval ==
  /\ user_usage \in [Users -> UsageRows]
  /\ \E row \in FlagRows : feature_flags = [f \in FEATURES |-> row]
  /\ cache = [k \in CacheKeys |-> None]
  /\ now = 0
  /\ instance = TRUE
  /\ routes = {}
  /\ req = [r \in Reqs |-> IF r = "r1" THEN EvalRequest ELSE NoRequest]
  /\ svc = << >>
  /\ hist = << >>
  /\ usage0 = user_usage
  /\ singletons = Constructed(instance)

NextEval ==
  \/ \E r \in Reqs : CheckMonetizationCall(r)
  \/ \E r \in Reqs : GetUserUsageLookup(r)
  \/ \E r \in Reqs : StoreSelectUsage(r)
  \/ \E r \in Reqs : GetUserUsageReply(r)
  \/ \E r \in Reqs : CheckFeatureAccessUsage(r)
  \/ \E r \in Reqs : GetFeatureRequirementsLookup(r)
  \/ \E r \in Reqs : StoreSelectFeature(r)
  \/ \E r \in Reqs : GetFeatureRequirementsReply(r)
  \/ \E r \in Reqs : CheckFeatureAccessFeature(r)
  \/ \E r \in Reqs : CheckMonetizationAccess(r)
  \/ \E r \in Reqs : ValidateUsageUsage(r)
  \/ Tick

SpecEval == InitEval /\ [][NextEval]_vars

\* ------------------------------------------------------------------------
\* The service singletons: getInstance, initialize and clearInstance called
\* one after the other (specification SpecInstance). hist records each call
\* with the static field before and after it.
\* ------------------------------------------------------------------------

MaxStaticCalls == 3

StaticReturn(cls, op, arg, threw, returned, after) ==
  /\ Len(hist) < MaxStaticCalls
  /\ singletons' = [singletons EXCEPT ![cls] = after]
  /\ instance' = (singletons'["MonetizationService"] # None)
  /\ hist' = Append(hist, [cls |-> cls, op |-> op, arg |-> arg,
                           before |-> singletons[cls], threw |-> threw,
                           returned |-> returned, after |-> after])
  /\ UNCHANGED <<user_usage, feature_flags, cache, now, routes, req, svc, usage0>>

\* a getInstance that builds a new instance whenever it is given an argument
getInstanceRebuilds(cls, arg) ==
  LET made == IF arg # None
                THEN Some(NewInstance(Len(hist) + 1, arg[1]))
                ELSE singletons[cls] IN
  IF made = None
    THEN StaticReturn(cls, "getInstance", arg, TRUE, None, made)
    ELSE StaticReturn(cls, "getInstance", arg, FALSE, made, made)

\* Service.getInstance(arg?) of either class
getInstance(cls, arg) ==
  LET made == IF singletons[cls] = None /\ arg # None
                THEN Some(NewInstance(Len(hist) + 1, arg[1]))
                ELSE singletons[cls] IN
  IF made = None
    THEN StaticReturn(cls, "getInstance", arg, TRUE, None, made)
    ELSE StaticReturn(cls, "getInstance", arg, FALSE, made, made)

\* MonetizationService.initialize(config)
initialize(config) ==
  LET cls == "MonetizationService"
      made == IF singletons[cls] = None
                THEN Some(NewInstance(Len(hist) + 1, config))
                ELSE singletons[cls] IN
  StaticReturn(cls, "initialize", Some(config), FALSE, None, made)

\* UserUsageService.clearInstance()
clearInstance ==
  StaticReturn("UserUsageService", "clearInstance", None, FALSE, None, None)

InitInstance ==
  /\ user_usage = [u \in Users |-> None]
  /\ feature_flags = [f \in FEATURES |-> None]
  /\ cache = [k \in CacheKeys |-> None]
  /\ now = 0
  /\ instance = FALSE
  /\ routes = {}
  /\ req = [r \in Reqs |-> NoRequest]
  /\ svc = << >>
  /\ hist = << >>
  /\ usage0 = user_usage
  /\ singletons = [cls \in {"MonetizationService", "UserUsageService"} |-> None]

\* the callers pass no argument or one of two clients
NextInstance ==
  \/ \E cls \in {"MonetizationService", "UserUsageService"},
        arg \in {None, Some("clientA"), Some("clientB")} :
       getInstance(cls, arg)
  \/ \E config \in {"clientA", "clientB"} : initialize(config)
  \/ clearInstance

SpecInstance == InitInstance /\ [][NextInstance]_vars

\* ------------------------------------------------------------------------
\* Properties of the request pipeline (specification Spec)
\* ------------------------------------------------------------------------

Evaluated(r) == req[r].result # None

Result(r) == req[r].result[1]

\* C1: an increment is started only for a request that the policy stage
\* allowed and whose handler has answered with a status below 400 and a body
\* that does not declare success false; before the handler has answered
\* nothing is started and nothing has reached the store.
C1_NoChargeUnlessAllowedAndSucceeded ==
  /\ \A r \in Reqs :
       /\ req[r].incStarted > 0 =>
            /\ Evaluated(r) /\ Result(r).success
            /\ req[r].handler # None
            /\ req[r].handler[1].statusCode < 400
            /\ req[r].handler[1].body.success # "false"
       /\ req[r].handler = None =>
            /\ req[r].incStarted = 0
            /\ req[r].rpcAtStore + req[r].rpcOk + req[r].rpcErr = 0
            /\ "incrementUsage" \notin req[r].calls
  /\ (\A r \in Reqs : req[r].incStarted = 0) => user_usage = usage0

\* a metered request whose handler failed and that ended without a charge
C1_Witness ==
  \E r \in Reqs :
    /\ req[r].pc = "done" /\ req[r].wrapped /\ req[r].handler # None
    /\ req[r].handler[1].statusCode >= 400
    /\ req[r].incStarted = 0

\* C2: the charge stage starts an increment if and only if an action was
\* queued and the handler's outcome is a success (status below 400, body not
\* declaring success false), whatever the shape of the body.
C2_ChargeIffQueuedAndSuccess ==
  \A r \in Reqs :
    req[r].handler # None =>
      (req[r].incStarted > 0 <=>
         /\ req[r].monetizationAction # Undefined
         /\ req[r].handler[1].statusCode < 400
         /\ req[r].handler[1].body.success # "false")

\* C3: when checkMonetization is not successful the policy middleware sends a
\* 403 denial and never calls next: the handler is not invoked.
C3_DenialShortCircuits ==
  \A r \in Reqs :
    (Evaluated(r) /\ ~Result(r).success) =>
      /\ req[r].nextCalled = 0
      /\ req[r].handler = None
      /\ req[r].pc \in {"mw_result", "done"}
      /\ req[r].pc = "done" =>
           /\ req[r].response # None
           /\ req[r].response[1].status = 403
           /\ req[r].response[1].code \in {"FEATURE_ACCESS_DENIED", "USAGE_LIMIT_REACHED"}

C3_Witness ==
  \E r \in Reqs :
    req[r].pc = "done" /\ Evaluated(r) /\ ~Result(r).success /\ req[r].response # None

\* C5: a result that passed the plan gate and whose limit is -1 is allowed.
C5_UnlimitedIsAllowed ==
  \A r \in Reqs :
    (Evaluated(r) /\ Result(r).hasAccess /\ Result(r).totalLimit = -1) =>
      Result(r).success

\* the stored plan of the request's user ranks below the plan that the active
\* flag of the request's feature requires
PlanBelowRequired(r) ==
  /\ req[r].userId \in Users
  /\ user_usage[req[r].userId] # None
  /\ req[r].cfg.featureId \in FEATURES
  /\ feature_flags[req[r].cfg.featureId] # None
  /\ feature_flags[req[r].cfg.featureId][1].is_active
  /\ feature_flags[req[r].cfg.featureId][1].required_plan \in PlanIdentifier
  /\ ~hasPlanAccess(user_usage[req[r].userId][1].current_plan_id,
                    feature_flags[req[r].cfg.featureId][1].required_plan)

NoStoreFailure(r) ==
  /\ "fail:user_usage" \notin req[r].calls
  /\ "fail:feature_flags" \notin req[r].calls

\* C6: when the user's plan ranks below the required plan (and the store
\* answered), the result is a denial carrying the required plan and the user's
\* plan, validateUsage was not called, and remaining and limit are 0.
C6_AccessGatesBeforeQuota ==
  \A r \in Reqs :
    (Evaluated(r) /\ PlanBelowRequired(r) /\ NoStoreFailure(r)) =>
      /\ ~Result(r).success
      /\ ~Result(r).hasAccess
      /\ Result(r).details # None
      /\ Result(r).details[1].requiredPlan
           = feature_flags[req[r].cfg.featureId][1].required_plan
      /\ Result(r).currentPlan = user_usage[req[r].userId][1].current_plan_id
      /\ Result(r).remainingUsage = 0
      /\ Result(r).totalLimit = 0
      /\ "validateUsage" \notin req[r].calls
      /\ req[r].pc = "done" =>
           /\ req[r].response[1].code = "FEATURE_ACCESS_DENIED"
           /\ req[r].response[1].upgrade # None
           /\ req[r].response[1].upgrade[1].requiredPlan
                = feature_flags[req[r].cfg.featureId][1].required_plan

C6_Witness ==
  \E r \in Reqs :
    /\ req[r].pc = "done" /\ Evaluated(r) /\ PlanBelowRequired(r) /\ NoStoreFailure(r)
    /\ user_usage[req[r].userId][1].current_plan_id = "free"
    /\ Result(r).details[1].requiredPlan = "creator"

\* C7: no denial carries both a required plan and quota numbers: neither the
\* result of checkMonetization nor the response built from it.
C7_DenialKindsExclusive ==
  \A r \in Reqs :
    /\ (Evaluated(r) /\ ~Result(r).success /\ Result(r).details # None
          /\ Result(r).details[1].requiredPlan \in PlanIdentifier) =>
         (Result(r).remainingUsage = 0 /\ Result(r).totalLimit = 0)
    /\ (req[r].response # None /\ req[r].response[1].details # None
          /\ req[r].response[1].details[1].requiredPlan \in PlanIdentifier) =>
         /\ req[r].response[1].details[1].remainingUsage = 0
         /\ req[r].response[1].details[1].totalLimit = 0

\* C8: when the store failed while the usage record was read, the request ends
\* with 500 MONETIZATION_SERVICE_ERROR and the handler is not invoked.
C8_UsageReadFailureIsServiceError ==
  \A r \in Reqs :
    (req[r].pc = "done" /\ "fail:user_usage" \in req[r].calls) =>
      /\ req[r].response[1].status = 500
      /\ req[r].response[1].code = "MONETIZATION_SERVICE_ERROR"
      /\ req[r].handler = None

\* C9: what getFeatureRequirements returns for an unreachable store differs
\* from what it returns for a feature that is not found.
C9_FailureDistinctFromNotFound ==
  \A r \in Reqs :
    (req[r].pc = "feature_reply" /\ req[r].reply.error = "other") =>
      FeatureFromReply(req[r].reply) # FeatureFromReply(Reply("PGRST116", None))

PlanOrder == <<"free", "creator", "pro">>

Rank(plan) == CHOOSE i \in 1..Len(PlanOrder) : PlanOrder[i] = plan

\* the access result of a request whose plan was compared with the feature's
Compared(r) == req[r].accessResult # None /\ req[r].accessResult[1].error = Undefined

\* C18: access is granted when the feature requires no plan, and otherwise
\* exactly when the user's plan ranks at least as high as the required plan
\* in the order free < creator < pro; a plan always gives access to itself.
C18_AccessFollowsPlanOrder ==
  \A r \in Reqs :
    Compared(r) =>
      LET a == req[r].accessResult[1] IN
      /\ a.hasAccess <=> (a.requiredPlan \in {Null, Undefined}
                            \/ Rank(a.currentPlan) >= Rank(a.requiredPlan))
      /\ a.requiredPlan = a.currentPlan => a.hasAccess

\* a user on the required plan was granted access
C18_Witness ==
  \E r \in Reqs :
    /\ Compared(r)
    /\ req[r].accessResult[1].requiredPlan = "creator"
    /\ req[r].accessResult[1].currentPlan = "creator"
    /\ req[r].accessResult[1].hasAccess

\* ------------------------------------------------------------------------
\* Properties of the services under direct calls (specification SpecSvc)
\* ------------------------------------------------------------------------

AllIdle == \A c \in Callers : svc[c].pc = "idle"

IsIncrement(e) == e.call.op \in {"M.incrementUsage", "U.incrementUsage"}

IsGet(e) == e.call.op \in {"M.getUserUsage", "U.getUserUsage"}

\* the service of a completed call: "M" or "U"
ServiceOf(e) == IF e.call.op \in {"M.getUserUsage", "M.incrementUsage"} THEN "M" ELSE "U"

\* the counter column that a completed increment addresses
ColumnOf(e) ==
  IF e.call.op = "M.incrementUsage"
    THEN getUsageFieldForAction(e.call.arg)
    ELSE IncrementFieldMap(e.call.arg)

\* the counter before the call; a record created by the call starts at 0
PreUsed(e) == IF e.pre = None THEN 0 ELSE e.pre[1][ColumnOf(e)]

RECURSIVE Charged(_, _, _)
\* the sum of the amounts of the first n completed calls for user u, column col
Charged(u, col, n) ==
  IF n = 0 THEN 0
  ELSE Charged(u, col, n - 1)
         + (IF hist[n].call.userId = u /\ ColumnOf(hist[n]) = col
              THEN hist[n].call.amount ELSE 0)

\* C4: once increment calls, concurrent or not, have all returned true, each
\* stored counter has grown by exactly the sum of the amounts of the calls
\* that addressed it.
C4_IncrementIsAtomic ==
  (/\ AllIdle
   /\ hist # << >>
   /\ \A i \in 1..Len(hist) : IsIncrement(hist[i]) /\ hist[i].ok
   /\ \A u \in Users : usage0[u] # None) =>
    \A u \in Users, col \in UsedColumns :
      user_usage[u][1][col] = usage0[u][1][col] + Charged(u, col, Len(hist))

C11_WritesInvalidateCache ==
  (AllIdle /\ hist # << >>) =>
    LET e == hist[Len(hist)] IN
    (IsIncrement(e) /\ e.ok /\ ~e.overlap) =>
      cache[UsageKey(e.call.userId)] = None

\* ------------------------------------------------------------------------
\* Properties of requests sent one after the other (specification SpecSeq)
\* ------------------------------------------------------------------------

\* the age of the cache entry under key, which is present
Age(key) == now - cache[key][1].timestamp

\* request r is about to look the usage record / the feature flag up and the
\* entry of the cache is as old as the 5 minutes or older
UsageEntryExpired(r) ==
  /\ req[r].userId \in Users
  /\ cache[UsageKey(req[r].userId)] # None
  /\ Age(UsageKey(req[r].userId)) >= 5 * 60 * 1000

FeatureEntryExpired(r) ==
  /\ cache[FeatureKey(req[r].cfg.featureId)] # None
  /\ Age(FeatureKey(req[r].cfg.featureId)) >= 5 * 60 * 1000

\* C12: getUserUsage and getFeatureRequirements return the cached value only
\* while the entry is younger than 5 minutes; with an entry that old or older
\* they query the store, and when that query fails they return null, not the
\* entry.
C12_CacheServedOnlyWhileFresh ==
  [][\A r \in Reqs :
       /\ (req[r].pc = "getUserUsage" /\ req'[r].pc \in {"cfa_usage", "vu_usage"}) =>
            /\ cache[UsageKey(req[r].userId)] # None
            /\ Age(UsageKey(req[r].userId)) < 5 * 60 * 1000
            /\ req'[r].userUsage = cache[UsageKey(req[r].userId)][1].data
       /\ (req[r].pc = "getUserUsage" /\ UsageEntryExpired(r)
             /\ req'[r].pc # "getUserUsage") =>
            req'[r].pc = "usage_select"
       /\ (req[r].pc = "usage_reply" /\ req'[r].pc # "usage_reply") =>
            req'[r].userUsage = (IF req[r].reply.error = "none"
                                   THEN user_usage[req[r].userId] ELSE None)
       /\ (req[r].pc = "getFeatureRequirements" /\ req'[r].pc = "cfa_feature") =>
            /\ cache[FeatureKey(req[r].cfg.featureId)] # None
            /\ Age(FeatureKey(req[r].cfg.featureId)) < 5 * 60 * 1000
            /\ req'[r].featureRequirements = cache[FeatureKey(req[r].cfg.featureId)][1].data
       /\ (req[r].pc = "getFeatureRequirements" /\ FeatureEntryExpired(r)
             /\ req'[r].pc # "getFeatureRequirements") =>
            req'[r].pc = "feature_select"
       /\ (req[r].pc = "feature_reply" /\ req'[r].pc # "feature_reply") =>
            req'[r].featureRequirements = (IF req[r].reply.error = "none"
                                             THEN feature_flags[req[r].cfg.featureId]
                                             ELSE None)
  ]_vars

\* the second request found both entries of the first one expired, queried the
\* store for the usage record in vain and got null
C12_Witness ==
  /\ req["r2"].pc = "cfa_usage"
  /\ req["r2"].userUsage = None
  /\ "fail:user_usage" \in req["r2"].calls
  /\ UsageEntryExpired("r2")
  /\ FeatureEntryExpired("r2")

\* ------------------------------------------------------------------------
\* Properties of two concurrent requests (specification SpecTwo)
\* ------------------------------------------------------------------------

\* increments of user u that the store has run for request r
ChargedBy(r, u) ==
  IF req[r].userId = u THEN req[r].rpcOk + req[r].incTrue ELSE 0

\* C13: the quota is checked when the request arrives and not again when it
\* is charged: a request is allowed only on a record that showed usage left,
\* and every increment the store runs adds one to the counter whatever the
\* limit, so that two requests that both passed at used = limit - 1 leave
\* used = limit + 1.
C13_CheckThenChargeIsNotClamped ==
  /\ \A r \in Reqs :
       (Evaluated(r) /\ Result(r).success) => Result(r).remainingUsage >= 1
  /\ \A u \in Users :
       user_usage[u][1].videos_generated
         = usage0[u][1].videos_generated + ChargedBy("r1", u) + ChargedBy("r2", u)

\* both requests passed the check with one use left, each was charged once,
\* and the counter is one above the limit
C13_Witness ==
  /\ \A r \in Reqs :
       /\ req[r].pc = "done" /\ Evaluated(r)
       /\ Result(r).success /\ Result(r).remainingUsage = 1
       /\ req[r].incStarted = 1 /\ req[r].incTrue = 1
  /\ usage0["u1"][1].videos_generated = usage0["u1"][1].videos_generated_limit - 1
  /\ user_usage["u1"][1].videos_generated = user_usage["u1"][1].videos_generated_limit + 1

\* ------------------------------------------------------------------------
\* Properties of UserUsageService.checkUsageLimit (specification SpecLimit)
\* ------------------------------------------------------------------------

IsCheck(e) == e.call.op = "U.checkUsageLimit"

\* the columns of the record that a usage field is metered by; the insights
\* and chat fields are metered by the account analysis columns
MeteredBy(field) ==
  IF field \in {"account_insights_used", "account_chat_used"}
    THEN "account_analysis_used" ELSE field

\* the completed check e was decided on a record, for a metered field
OnRecord(e) == IsCheck(e) /\ e.row # None /\ e.call.arg \in USAGE_FIELDS

UsedOf(e) == e.row[1][MeteredBy(e.call.arg)]

LimitOf(e) == e.row[1][LimitColumn(MeteredBy(e.call.arg))]

\* C15: a check decided on a record whose limit for the field is -1 returns
\* false, whatever the value of used.
C15_UnlimitedIsNeverReached ==
  \A i \in 1..Len(hist) :
    (OnRecord(hist[i]) /\ LimitOf(hist[i]) = -1) => ~hist[i].ok

\* a check on an unlimited field whose counter is above zero
C15_Witness ==
  \E i \in 1..Len(hist) :
    /\ OnRecord(hist[i]) /\ LimitOf(hist[i]) = -1
    /\ UsedOf(hist[i]) > 0 /\ ~hist[i].ok

\* C16: a check for which no record could be obtained (getUserUsage returned
\* none: the read failed, or the record was missing and could not be
\* created), or whose field is unknown, returns true.
C16_NoRecordIsLimitReached ==
  \A i \in 1..Len(hist) :
    (IsCheck(hist[i]) /\ (hist[i].row = None \/ hist[i].call.arg \notin USAGE_FIELDS))
      => hist[i].ok

\* checks without a record and with an unknown field have both completed
C16_Witness ==
  /\ \E i \in 1..Len(hist) :
       IsCheck(hist[i]) /\ hist[i].row = None /\ hist[i].call.arg \in USAGE_FIELDS
         /\ hist[i].ok
  /\ \E i \in 1..Len(hist) :
       IsCheck(hist[i]) /\ hist[i].row # None /\ hist[i].call.arg \notin USAGE_FIELDS
         /\ hist[i].ok

\* C17: a check decided on a record whose limit for the field is finite
\* returns true exactly when used >= limit.
C17_FiniteLimitComparesUsed ==
  \A i \in 1..Len(hist) :
    (OnRecord(hist[i]) /\ LimitOf(hist[i]) # -1)
      => (hist[i].ok <=> UsedOf(hist[i]) >= LimitOf(hist[i]))

\* checks at the limit and below it have both completed
C17_Witness ==
  /\ \E i \in 1..Len(hist) :
       OnRecord(hist[i]) /\ LimitOf(hist[i]) > 0
         /\ UsedOf(hist[i]) = LimitOf(hist[i]) /\ hist[i].ok
  /\ \E i \in 1..Len(hist) :
       OnRecord(hist[i]) /\ LimitOf(hist[i]) # -1
         /\ UsedOf(hist[i]) < LimitOf(hist[i]) /\ ~hist[i].ok

\* ------------------------------------------------------------------------
\* Properties of the quota denial and of unknown features (specification Spec)
\* ------------------------------------------------------------------------

\* the evaluation of request r allowed the plan and denied the quota
QuotaDenied(r) ==
  /\ Evaluated(r)
  /\ ~Result(r).success /\ Result(r).hasAccess
  /\ Result(r).error = "Usage limit reached"

\* the limit that the user's record holds for the feature of request r
RecordLimit(r) ==
  user_usage[req[r].userId][1]
    [LimitColumn(MeteredBy(getUsageFieldForFeature(req[r].cfg.featureId)))]

\* C19: a result that is denied by quota reports remaining 0 and the limit
\* that the user's record holds for the feature's usage field.
C19_QuotaDenialReportsRecordLimit ==
  \A r \in Reqs :
    QuotaDenied(r) =>
      /\ Result(r).remainingUsage = 0
      /\ Result(r).totalLimit = RecordLimit(r)

\* the call of checkMonetization of r was made with an unknown feature id
UnknownFeatureCall(r) ==
  /\ req[r].pc \notin {"eval", "off"}
  /\ ~isValidFeatureId(req[r].cfg.featureId)

\* C20: an evaluation of a feature id outside the known features returns
\* the denial for an invalid feature id and looks neither into the cache nor
\* into the store: no usage read, no feature read, the cache stays empty.
C20_UnknownFeatureTouchesNothing ==
  \A r \in Reqs :
    UnknownFeatureCall(r) =>
      /\ Evaluated(r)
      /\ ~Result(r).success /\ ~Result(r).hasAccess
      /\ Result(r).error = "Invalid feature ID"
      /\ req[r].calls = {"checkMonetization"}
      /\ cache = [k \in CacheKeys |-> None]
      /\ user_usage = usage0

\* an evaluation of an unknown feature has returned, for a user with a record
C20_Witness ==
  \E r \in Reqs :
    /\ UnknownFeatureCall(r)
    /\ req[r].pc = "mw_result"
    /\ req[r].cfg.featureId = "custom_feature"
    /\ Evaluated(r) /\ Result(r).error = "Invalid feature ID"
    /\ user_usage[req[r].userId] # None

\* ------------------------------------------------------------------------
\* Properties of unauthenticated requests (specification Spec)
\* ------------------------------------------------------------------------

\* the policy middleware has looked at request r and found no user id
Unauthenticated(r) == req[r].pc \notin {"new", "off", "queued", "eval"} /\ req[r].userId = Undefined

\* the route of request r names a known feature and, if any, a known action
ValidRoute(r) ==
  /\ isValidFeatureId(req[r].cfg.featureId)
  /\ req[r].cfg.action # Undefined => isValidAction(req[r].cfg.action)

FreshRecord(plan) ==
  [col \in DOMAIN UsageRow(plan, plan, 0) |->
     IF col = "current_plan_id" THEN plan
     ELSE IF col \in UsedColumns THEN 0
     ELSE PlanLimits(plan)[col]]

\* C22: a get for a user without a record, with the store answering every
\* query, creates the record of the free plan and returns it; after every
\* get that returned a record, the user has a record in the store.
C22_GetCreatesFreeRecord ==
  \A i \in 1..Len(hist) :
    IsGet(hist[i]) =>
      /\ hist[i].ok => user_usage[hist[i].call.userId] # None
      /\ (hist[i].pre = None /\ hist[i].faults = {}) =>
           /\ hist[i].ok
           /\ hist[i].row = Some(FreshRecord("free"))

\* the call completed last
Last == hist[Len(hist)]

IsCreate(e) == e.call.op = "U.createUserUsage"

\* C23: a create that returns a record has inserted the record of the given
\* plan: counters 0, the plan's catalog limits; a create whose plan lookup
\* failed, or whose insert failed, returns null and inserts nothing. The
\* record that a get creates is the one of the free plan.
C23_CreateInsertsZeroedPlanRecord ==
  /\ \A i \in 1..Len(hist) :
       /\ (IsCreate(hist[i]) /\ hist[i].ok) =>
            /\ hist[i].pre = None
            /\ hist[i].row = Some(FreshRecord(hist[i].call.arg))
       /\ (IsCreate(hist[i]) /\ hist[i].faults # {}) => (~hist[i].ok /\ hist[i].row = None)
       /\ (hist[i].call.op = "U.getUserUsage" /\ hist[i].ok /\ hist[i].pre = None) =>
            hist[i].row = Some(FreshRecord("free"))
  /\ (AllIdle /\ hist # << >> /\ IsCreate(Last)) =>
       user_usage[Last.call.userId] = IF Last.ok THEN Last.row ELSE Last.pre

\* a create for the creator plan has inserted and returned its record
C23_Witness ==
  /\ AllIdle /\ hist # << >>
  /\ IsCreate(Last) /\ Last.ok /\ Last.call.arg = "creator"
  /\ Last.pre = None
  /\ user_usage[Last.call.userId] = Some(FreshRecord("creator"))
  /\ \E i \in 1..Len(hist) : IsCreate(hist[i]) /\ "plan" \in hist[i].faults /\ ~hist[i].ok

IsUpdatePlan(e) == e.call.op = "U.updateUserPlan"

\* the counter of column col before the call e; no record counts as 0
UsedBefore(e, col) == IF e.pre = None THEN 0 ELSE e.pre[1][col]

\* C24: after an updatePlan that succeeded the record has the new plan id and
\* the new plan's catalog limits, and every used counter has the value it had
\* before the call (0 where the call created the record); an updatePlan that
\* failed has not changed a counter either.
C24_UpdatePlanKeepsCounters ==
  (AllIdle /\ hist # << >> /\ IsUpdatePlan(Last)) =>
    LET stored == user_usage[Last.call.userId] IN
    /\ Last.ok =>
         /\ stored # None /\ Last.row = stored
         /\ stored[1].current_plan_id = Last.call.arg
         /\ \A col \in UsedColumns :
              stored[1][LimitColumn(col)] = PlanLimits(Last.call.arg)[LimitColumn(col)]
    /\ stored # None =>
         \A col \in UsedColumns : stored[1][col] = UsedBefore(Last, col)

\* a user with used counters above 0 was moved to another plan
C24_Witness ==
  /\ AllIdle /\ hist # << >>
  /\ IsUpdatePlan(Last) /\ Last.ok
  /\ Last.pre # None
  /\ Last.pre[1].current_plan_id = "free" /\ Last.call.arg = "pro"
  /\ Last.pre[1].videos_generated = MaxInitUsed
  /\ user_usage[Last.call.userId][1].videos_generated = MaxInitUsed
  /\ user_usage[Last.call.userId][1].videos_generated_limit = -1

\* a completed increment or decrement of either service
IsMutation(e) ==
  e.call.op \in {"M.incrementUsage", "M.decrementUsage", "U.incrementUsage"}

\* the argument of the mutation e names no action (MonetizationService) or no
\* usage field (UserUsageService)
InvalidArgument(e) ==
  IF e.call.op = "U.incrementUsage" THEN e.call.arg \notin USAGE_FIELDS
  ELSE e.call.arg \notin ACTION_VALUES

\* caller c returns from its call in this step
Returns(c) == svc[c].pc # "idle" /\ svc'[c].pc = "idle"

StatesRequiredPlan(resp) ==
  \/ resp.upgrade # None /\ resp.upgrade[1].requiredPlan \in PlanIdentifier
  \/ resp.details # None /\ resp.details[1].requiredPlan \in PlanIdentifier

\* the response gives the remaining usage and the limit
StatesUsage(resp) ==
  \/ /\ resp.details # None
     /\ resp.details[1].remainingUsage \in Int /\ resp.details[1].totalLimit \in Int
  \/ /\ resp.limits # None
     /\ resp.limits[1].remaining \in Int /\ resp.limits[1].total \in Int

\* C26: every response with code FEATURE_ACCESS_DENIED names the required
\* plan, and every response with code USAGE_LIMIT_REACHED gives the remaining
\* usage and the limit.
C26_DenialsAreActionable ==
  \A r \in Reqs :
    req[r].response # None =>
      /\ req[r].response[1].code = "FEATURE_ACCESS_DENIED"
           => StatesRequiredPlan(req[r].response[1])
      /\ req[r].response[1].code = "USAGE_LIMIT_REACHED"
           => StatesUsage(req[r].response[1])

\* ------------------------------------------------------------------------
\* Properties of the feature lookups of successive requests (specification
\* SpecSeq)
\* ------------------------------------------------------------------------

\* C27: when getFeatureRequirements has fetched from the store and the store
\* has answered, with the row or with "no such row", the answer is in the
\* cache under the feature's key with the time of the fetch, so that the next
\* lookup within the 5 minutes is served from the cache.
C27_MissIsCached ==
  [][\A r \in Reqs :
       (/\ req[r].pc = "feature_reply" /\ req'[r].pc = "cfa_feature"
        /\ req[r].reply.error # "other") =>
         LET key == FeatureKey(req[r].cfg.featureId) IN
         /\ cache'[key] # None
         /\ cache'[key][1].data = FeatureFromReply(req[r].reply)
         /\ cache'[key][1].timestamp = now
         /\ CacheHit(cache', key, now)
  ]_vars

\* ------------------------------------------------------------------------
\* Properties of the mapping tables (specification SpecEval)
\* ------------------------------------------------------------------------

\* C28: every feature id has one action and every action one usage field,
\* and the usage field that the direct table gives for a feature is the one
\* of the feature's action; the usage type that an evaluation reports is
\* that field.
C28_MappingTablesAgree ==
  /\ \A f \in FEATURES :
       /\ getActionForFeature(f) \in ACTION_VALUES
       /\ getUsageFieldForFeature(f) \in USAGE_FIELDS
       /\ getUsageFieldForFeature(f) = getUsageFieldForAction(getActionForFeature(f))
  /\ \A a \in ACTION_VALUES : getUsageFieldForAction(a) \in USAGE_FIELDS
  /\ \A r \in Reqs :
       (Evaluated(r) /\ Result(r).details # None) =>
         /\ Result(r).details[1].usageType \in USAGE_FIELDS
         /\ Result(r).details[1].usageType
              = ACTION_TO_USAGE_FIELD_MAP[FEATURE_TO_ACTION_MAP[req[r].cfg.featureId]]

\* an evaluation of a feature that shares its action with other features
C28_Witness ==
  \E r \in Reqs :
    /\ Evaluated(r) /\ Result(r).details # None
    /\ req[r].cfg.featureId = "chat_ai"
    /\ Result(r).details[1].usageType = "script_conversations_used"

\* ------------------------------------------------------------------------
\* Properties of the counters (specification SpecUsage)
\* ------------------------------------------------------------------------

\* C29: every used counter of every usage record is at or above 0, whatever
\* calls were made and whatever amount they were given.
C29_UsedIsNeverNegative ==
  \A u \in Users :
    user_usage[u] # None =>
      \A col \in UsedColumns : user_usage[u][1][col] >= 0

\* ------------------------------------------------------------------------
\* Properties of the quota verdict (specification SpecEval)
\* ------------------------------------------------------------------------

\* C30: for the record that validateUsage has read, validateUsage on the
\* feature's action reports the limit reached exactly when checkUsageLimit on
\* the feature's usage field returns true for that record.
C30_ValidateUsageIsCheckUsageLimit ==
  \A r \in Reqs :
    (req[r].pc = "vu_usage" /\ req[r].userUsage # None) =>
      LET featureId == req[r].cfg.featureId
          usageResult == UsageDecision(getActionForFeature(featureId), req[r].userUsage)
      IN ~usageResult.isValid
           <=> checkUsageLimit(getUsageFieldForFeature(featureId), req[r].userUsage)

\* ------------------------------------------------------------------------
\* Properties of the service singletons (specification SpecInstance)
\* ------------------------------------------------------------------------

\* the calls of class cls numbered i+1..j hold no clearInstance
NoClearBetween(cls, i, j) ==
  \A k \in (i + 1)..j : ~(hist[k].cls = cls /\ hist[k].op = "clearInstance")

\* C31: the service singletons are stable. A getInstance without argument
\* while the class holds no instance throws and leaves none; the first
\* getInstance or initialize with an argument creates an instance no earlier
\* call has seen; every later getInstance or initialize, with or without
\* argument, keeps that instance and getInstance returns it, until
\* clearInstance is called.
C31_SingletonIsStable ==
  \A j \in 1..Len(hist) :
    LET e == hist[j] IN
    /\ (e.op = "getInstance" /\ e.before = None /\ e.arg = None) =>
         (e.threw /\ e.after = None)
    /\ (e.op \in {"getInstance", "initialize"} /\ e.before = None /\ e.arg # None) =>
         /\ ~e.threw /\ e.after # None
         /\ e.op = "getInstance" => e.returned = e.after
         /\ \A i \in 1..(j - 1) : hist[i].after # e.after
    /\ \A i \in 1..(j - 1) :
         (hist[i].cls = e.cls /\ hist[i].after # None /\ NoClearBetween(e.cls, i, j)) =>
           /\ ~e.threw /\ e.after = hist[i].after
           /\ e.op = "getInstance" => e.returned = hist[i].after

\* getInstance() threw, initialize(clientA) created the instance, and
\* getInstance(clientB) returned that same instance
C31_Witness ==
  /\ Len(hist) = 3
  /\ \A i \in 1..3 : hist[i].cls = "MonetizationService"
  /\ hist[1].op = "getInstance" /\ hist[1].arg = None /\ hist[1].threw
  /\ hist[2].op = "initialize" /\ hist[2].arg = Some("clientA") /\ hist[2].after # None
  /\ hist[3].op = "getInstance" /\ hist[3].arg = Some("clientB")
  /\ hist[3].returned = hist[2].after

\* ------------------------------------------------------------------------
\* Properties of the plan gate under every lookup outcome (specification
\* SpecEval)
\* ------------------------------------------------------------------------

\* the plan that the store requires for the feature of request r: the
\* required_plan of its active feature_flags row, None when there is none
StoreRequiredPlan(r) ==
  LET row == feature_flags[req[r].cfg.featureId] IN
  IF row = None \/ ~row[1].is_active \/ row[1].required_plan = Null
    THEN None
    ELSE Some(row[1].required_plan)

\* C32: checkMonetization never allows a user whose plan ranks below the
\* plan that the store requires for the feature, whatever the cache holds and
\* whatever the lookup of the feature's requirements answered (the row, no
\* row, or a failure of the store).
C32_NeverAllowedBelowRequiredPlan ==
  \A r \in Reqs :
    (Evaluated(r) /\ Result(r).success /\ StoreRequiredPlan(r) # None
       /\ user_usage[req[r].userId] # None) =>
      Rank(user_usage[req[r].userId][1].current_plan_id) >= Rank(StoreRequiredPlan(r)[1])

\* ------------------------------------------------------------------------
\* Properties of requests sent one at a time (specification SpecPaced)
\* ------------------------------------------------------------------------

\* the policy stage let request r through to its handler
Admitted(r) == req[r].nextCalled > 0

\* the handler of r answered 200 with a body whose success is true
HandlerSucceeded(r) ==
  /\ req[r].handler # None
  /\ req[r].handler[1].statusCode = 200
  /\ req[r].handler[1].body.success = "true"

\* no rpc of request r met a failure of the store
NoRpcFailure(r) == req[r].rpcErr = 0 /\ req[r].incFalse = 0

\* C33: when the requests of one user are sent one at a time, each after the
\* response to the one before, every handler succeeds and the store never
\* fails, the number of requests let through is at most limit - initial used
\* for a finite limit.
C33_SequentialRequestsStayWithinLimit ==
  \A u \in Users :
    (/\ usage0[u] # None
     /\ usage0[u][1].videos_generated_limit >= 0
     /\ \A r \in Reqs :
          /\ req[r].response # None
          /\ req[r].userId = u
          /\ NoStoreFailure(r) /\ NoRpcFailure(r)
          /\ Admitted(r) => HandlerSucceeded(r)) =>
      LET left == usage0[u][1].videos_generated_limit - usage0[u][1].videos_generated IN
      Cardinality({r \in Reqs : Admitted(r)}) <= IF left > 0 THEN left ELSE 0

\* ------------------------------------------------------------------------
\* Properties of the intercepted res.send (specification Spec)
\* ------------------------------------------------------------------------

\* C34: for one request the charge stage starts at most one increment,
\* whichever way the handler writes its response: res.send with an object,
\* res.send with a string, or res.json.
C34_AtMostOneIncrementPerRequest ==
  \A r \in Reqs : req[r].incStarted <= 1

\* ------------------------------------------------------------------------
\* Properties of the cache shared by the users (specification SpecShared)
\* ------------------------------------------------------------------------

\* the last completed call is a MonetizationService increment or decrement
\* that returned true
LastMutationSucceeded ==
  /\ AllIdle /\ hist # << >>
  /\ Last.call.op \in {"M.incrementUsage", "M.decrementUsage"}
  /\ Last.ok

\* C35: a successful increment or decrement for user u removes only cache
\* entries of u: the cached usage entry of every other user, also of one whose
\* id contains the id of u, and every cached feature entry stay as they were.
C35_ClearTouchesOnlyOwnEntries ==
  LastMutationSucceeded =>
    \A k \in DOMAIN cache :
      k # UsageKey(Last.call.userId) =>
        cache[k] = WarmCache(usage0, feature_flags)[k]

\* ------------------------------------------------------------------------
\* Properties of a read that overlaps a write (specification SpecSvc)
\* ------------------------------------------------------------------------

\* only MonetizationService was called, and one of its increments returned true
OnlyMonetizationCalls ==
  /\ \A i \in 1..Len(hist) : hist[i].call.op \in {"M.getUserUsage", "M.incrementUsage"}
  /\ \E i \in 1..Len(hist) : hist[i].call.op = "M.incrementUsage" /\ hist[i].ok

\* C36: a getUserUsage that overlaps an incrementUsage of the same user leaves
\* no stale entry: once the increment has returned true and every call in
\* flight has returned, a usage entry in the cache equals the user's row in
\* the store.
C36_OverlappingGetLeavesNoStaleEntry ==
  (AllIdle /\ OnlyMonetizationCalls) =>
    \A u \in Users :
      cache[UsageKey(u)] # None => cache[UsageKey(u)][1].data = user_usage[u]

\* ------------------------------------------------------------------------
\* Properties of the ways out of the policy middleware (specification Spec)
\* ------------------------------------------------------------------------

\* the policy middleware of request r has returned
PolicyReturned(r) == req[r].pc \in {"incr_mw", "handler", "charging", "done"}

\* the policy middleware of request r has sent a response
PolicyResponded(r) ==
  req[r].response # None /\ req[r].response[1].code # "HANDLER"

\* the route of r leaves denials to the inline response or to
\* defaultMonetizationErrorHandler
DefaultErrorHandling(r) == req[r].cfg.errorHandler \in {"none", "default"}

\* C37: on every path of the policy middleware with the default error
\* handling (invalid feature, invalid action, no user, denied, allowed,
\* exception) either a response is sent or next is called, once: never both,
\* and after the middleware has returned never neither.
C37_RespondsOrContinuesOnce ==
  \A r \in Reqs :
    DefaultErrorHandling(r) =>
      /\ req[r].nextCalled <= 1
      /\ ~(req[r].nextCalled = 1 /\ PolicyResponded(r))
      /\ PolicyReturned(r) => (req[r].nextCalled = 1 \/ PolicyResponded(r))

\* a denied request was answered 403 and next was not called
C37_Witness ==
  \E r \in Reqs :
    /\ DefaultErrorHandling(r) /\ PolicyReturned(r)
    /\ Evaluated(r) /\ ~Result(r).success
    /\ PolicyResponded(r) /\ req[r].response[1].status = 403
    /\ req[r].nextCalled = 0

\* ------------------------------------------------------------------------
\* Properties of the preset middleware (specification Spec)
\* ------------------------------------------------------------------------

\* the preset configurations that charge after success
MeteredPresets == {cfg \in PresetConfigs : cfg.incrementUsage}

\* the usage field whose quota checkMonetization checks for a feature
CheckedField(featureId) == getUsageFieldForAction(getActionForFeature(featureId))

====
